---- MODULE Spec2Model ----
(***************************************************************************)
(* The scheduling core of one partition: the queue tree with its capacity  *)
(* accounting, the partition's maps of nodes, applications and             *)
(* allocations, and the allocation cycle (descent plus commit).            *)
(*                                                                         *)
(* The queue is modelled from the queue source (QueueInfo), the partition  *)
(* from partition.go.  The resource algebra, the application, the node,    *)
(* the object state machine and the descent through the queue tree are     *)
(* not in the source tree: they are modelled from the specification.       *)
(***************************************************************************)
EXTENDS Integers, FiniteSets, Sequences, TLC

(***************************************************************************)
(* Bounds of the model.                                                    *)
(***************************************************************************)
MaxUUID == 2        \* UUIDs are 1..MaxUUID
MaxRepeat == 1      \* largest repeat count (maxAllocations) of an ask
MaxQueueAlloc == 2  \* cap of a component of a queue's allocatedResource

(***************************************************************************)
(* Resource algebra.  A resource is a mapping from resource type to a      *)
(* quantity; Nil is the nil pointer (no resource set).                     *)
(***************************************************************************)
Types == {"memory", "vcore"}

Res(m, v) == [memory |-> m, vcore |-> v]

Nil == Res(-1, -1)

NewResource == Res(0, 0)

Add(left, right) == [t \in Types |-> left[t] + right[t]]

Sub(left, right) ==
    IF right = Nil THEN left ELSE [t \in Types |-> left[t] - right[t]]

FitIn(larger, smaller) == \A t \in Types : larger[t] >= smaller[t]

IsZero(r) == \A t \in Types : r[t] = 0

StrictlyGreaterThanZero(r) == \E t \in Types : r[t] > 0

\* the value of a possibly nil resource: a missing quantity is 0
Val(r) == IF r = Nil THEN NewResource ELSE r

(***************************************************************************)
(* Identifiers.                                                            *)
(***************************************************************************)
RootQueue == "root"
NoQueue == "none"
QLeaf == "root.leaf"
QParent == "root.parent"
QSubLeaf == "root.parent.sub-leaf"
QueuePaths == {RootQueue, QLeaf, QParent, QSubLeaf}

NodeIDs == {"node-1", "node-2"}
AppIDs == {"app-1", "app-2"}
Users == {"alice", "bob"}
UUIDs == 1..MaxUUID
NoUUID == 0         \* the empty UUID string
NoID == "none"

\* object states
New == "New"
Active == "Active"
Draining == "Draining"
Stopped == "Stopped"

VARIABLES
    pstate,                 \* pc.stateMachine.Current()
    rules,                  \* pc.rules, the placement rules of the configuration
    callers,                \* per goroutine: the queue call it is in and the
                            \* queue locks it holds, in the order it took them
    totalPartitionResource, \* pc.totalPartitionResource
    queues,                 \* the queue tree below pc.root, by queue path
    nodes,                  \* pc.nodes
    applications,           \* pc.applications
    allocations,            \* pc.allocations
    reservedApps,           \* pc.reservedApps
    inflight,               \* the result of a descent that is not yet committed
    last                    \* the last operation called and what it returned

vars == <<pstate, rules, callers, totalPartitionResource, queues, nodes, applications,
          allocations, reservedApps, inflight, last>>

(***************************************************************************)
(* Maps.                                                                   *)
(***************************************************************************)
EmptyMap == [x \in {} |-> NoID]

MapPut(m, k, v) == [x \in (DOMAIN m) \cup {k} |-> IF x = k THEN v ELSE m[x]]

MapDel(m, k) == [x \in (DOMAIN m) \ {k} |-> m[x]]

RECURSIVE SumRes(_)
\* the pointwise sum of the resources in the range of a map
SumRes(f) ==
    IF DOMAIN f = {} THEN NewResource
    ELSE LET x == CHOOSE y \in DOMAIN f : TRUE
         IN  Add(f[x], SumRes(MapDel(f, x)))

(***************************************************************************)
(* The queue.                                                              *)
(***************************************************************************)
Queue(parent, leaf, max, submit, admin) ==
    [Parent |-> parent, isLeaf |-> leaf, isManaged |-> TRUE,
     maxResource |-> max, allocatedResource |-> NewResource,
     submitACL |-> submit, adminACL |-> admin,
     state |-> Active, stateTime |-> 0, children |-> {}, applications |-> {},
     reservedApps |-> EmptyMap, properties |-> EmptyMap]

RECURSIVE Chain(_, _)
\* the queue and its ancestors, following the parent links
Chain(qs, q) ==
    IF q = NoQueue THEN {} ELSE {q} \cup Chain(qs, qs[q].Parent)

\* IncAllocatedResource, with the update of this queue made before the parent
\* is asked
RECURSIVE IncAllocatedResourceEager(_, _, _, _)
IncAllocatedResourceEager(qs, q, alloc, nodeReported) ==
    LET newAllocation == Add(qs[q].allocatedResource, alloc)
    IN  IF /\ ~nodeReported
           /\ qs[q].maxResource # Nil
           /\ ~FitIn(qs[q].maxResource, newAllocation)
        THEN [err |-> TRUE, qs |-> qs]
        ELSE LET mine == [qs EXCEPT ![q].allocatedResource = newAllocation]
                 up == IF qs[q].Parent # NoQueue
                       THEN IncAllocatedResourceEager(mine, qs[q].Parent, alloc, nodeReported)
                       ELSE [err |-> FALSE, qs |-> mine]
             IN  up

\* IncAllocatedResource with the max checked also for a node reported increment
RECURSIVE IncAllocatedResourceChecked(_, _, _, _)
IncAllocatedResourceChecked(qs, q, alloc, nodeReported) ==
    LET newAllocation == Add(qs[q].allocatedResource, alloc)
    IN  IF /\ qs[q].maxResource # Nil
           /\ ~FitIn(qs[q].maxResource, newAllocation)
        THEN [err |-> TRUE, qs |-> qs]
        ELSE LET up == IF qs[q].Parent # NoQueue
                       THEN IncAllocatedResourceChecked(qs, qs[q].Parent, alloc, nodeReported)
                       ELSE [err |-> FALSE, qs |-> qs]
             IN  IF up.err
                 THEN [err |-> TRUE, qs |-> up.qs]
                 ELSE [err |-> FALSE,
                       qs |-> [up.qs EXCEPT ![q].allocatedResource = newAllocation]]

\* IncAllocatedResource that never looks at the max
RECURSIVE IncAllocatedResourceSkipMax(_, _, _, _)
IncAllocatedResourceSkipMax(qs, q, alloc, nodeReported) ==
    LET up == IF qs[q].Parent # NoQueue
              THEN IncAllocatedResourceSkipMax(qs, qs[q].Parent, alloc, nodeReported)
              ELSE [err |-> FALSE, qs |-> qs]
    IN  [err |-> FALSE,
         qs |-> [up.qs EXCEPT ![q].allocatedResource = Add(@, alloc)]]

\* IncAllocatedResource that updates this queue and does not call the parent
IncAllocatedResourceLocal(qs, q, alloc, nodeReported) ==
    LET newAllocation == Add(qs[q].allocatedResource, alloc)
    IN  IF /\ ~nodeReported
           /\ qs[q].maxResource # Nil
           /\ ~FitIn(qs[q].maxResource, newAllocation)
        THEN [err |-> TRUE, qs |-> qs]
        ELSE [err |-> FALSE,
              qs |-> [qs EXCEPT ![q].allocatedResource = newAllocation]]

RECURSIVE IncAllocatedResource(_, _, _, _)
\* Increment the allocated resources for this queue (recursively).
\* Returns the error flag and the queues as the call leaves them.
IncAllocatedResource(qs, q, alloc, nodeReported) ==
    LET newAllocation == Add(qs[q].allocatedResource, alloc)
    IN  IF /\ ~nodeReported
           /\ qs[q].maxResource # Nil
           /\ ~FitIn(qs[q].maxResource, newAllocation)
        THEN [err |-> TRUE, qs |-> qs]
        ELSE LET up == IF qs[q].Parent # NoQueue
                       THEN IncAllocatedResource(qs, qs[q].Parent, alloc, nodeReported)
                       ELSE [err |-> FALSE, qs |-> qs]
             IN  IF up.err
                 THEN [err |-> TRUE, qs |-> up.qs]
                 ELSE [err |-> FALSE,
                       qs |-> [up.qs EXCEPT ![q].allocatedResource = newAllocation]]

\* decAllocatedResource without the guard against going below zero
RECURSIVE decAllocatedResourceUnchecked(_, _, _)
decAllocatedResourceUnchecked(qs, q, alloc) ==
    LET up == IF qs[q].Parent # NoQueue
              THEN decAllocatedResourceUnchecked(qs, qs[q].Parent, alloc)
              ELSE [err |-> FALSE, qs |-> qs]
    IN  [err |-> FALSE,
         qs |-> [up.qs EXCEPT ![q].allocatedResource = Sub(@, alloc)]]

RECURSIVE decAllocatedResource(_, _, _)
\* Decrement the allocated resources for this queue (recursively).
decAllocatedResource(qs, q, alloc) ==
    IF alloc # Nil /\ ~FitIn(qs[q].allocatedResource, alloc)
    THEN [err |-> TRUE, qs |-> qs]
    ELSE LET up == IF qs[q].Parent # NoQueue
                   THEN decAllocatedResource(qs, qs[q].Parent, alloc)
                   ELSE [err |-> FALSE, qs |-> qs]
         IN  IF up.err
             THEN [err |-> TRUE, qs |-> up.qs]
             ELSE [err |-> FALSE,
                   qs |-> [up.qs EXCEPT ![q].allocatedResource =
                               Sub(up.qs[q].allocatedResource, alloc)]]

\* Set the max resource of the root queue; any other queue is left alone.
setMaxResource(qs, q, max) ==
    IF qs[q].Parent # NoQueue THEN qs
    ELSE [qs EXCEPT ![q].maxResource = max]

\* CheckSubmitAccess without the walk up to the parent
CheckSubmitAccessLocal(qs, q, user) ==
    user \in qs[q].submitACL \/ user \in qs[q].adminACL

\* Check if the user has access to the queue to submit an application
\* (recursively): the submit ACL and the admin ACL of the queue, then the parent.
RECURSIVE CheckSubmitAccess(_, _, _)
CheckSubmitAccess(qs, q, user) ==
    LET allow == user \in qs[q].submitACL \/ user \in qs[q].adminACL
    IN  IF ~allow /\ qs[q].Parent # NoQueue
        THEN CheckSubmitAccess(qs, qs[q].Parent, user)
        ELSE allow

\* CheckAdminAccess on the queue alone, without the walk to the parent
CheckAdminAccessLocal(qs, q, user) ==
    user \in qs[q].adminACL

\* Check if the user has access to the queue for admin actions (recursively):
\* the admin ACL of the queue, then the parent.
RECURSIVE CheckAdminAccess(_, _, _)
CheckAdminAccess(qs, q, user) ==
    LET allow == user \in qs[q].adminACL
    IN  IF ~allow /\ qs[q].Parent # NoQueue
        THEN CheckAdminAccess(qs, qs[q].Parent, user)
        ELSE allow

(***************************************************************************)
(* The allocation, the node and the application.                           *)
(***************************************************************************)
Allocated == "Allocated"
AllocatedReserved == "AllocatedReserved"
Reserved == "Reserved"
Unreserved == "Unreserved"

Allocation(uuid, appID, nodeID, reservedNodeID, res, result) ==
    [UUID |-> uuid, ApplicationID |-> appID, NodeID |-> nodeID,
     ReservedNodeID |-> reservedNodeID, AllocatedResource |-> res,
     Result |-> result, reported |-> FALSE]

\* an allocation a node reports: an object of its own, whatever its fields
Reported(uuid, appID, nodeID, res) ==
    [Allocation(uuid, appID, nodeID, NoID, res, Allocated)
        EXCEPT !.reported = TRUE]

NoAlloc == Allocation(NoUUID, NoID, NoID, NoID, Nil, "none")

NewNode(nodeID, capacity, schedulable) ==
    [NodeID |-> nodeID, capacity |-> capacity, allocatedResource |-> NewResource,
     allocations |-> EmptyMap, schedulable |-> schedulable, reservations |-> {}]

NewApplication(appID) ==
    [ApplicationID |-> appID, queue |-> NoQueue, allocatedResource |-> NewResource,
     allocations |-> EmptyMap,
     ask |-> [res |-> NewResource, repeat |-> 0],
     reservations |-> {}]

\* availableResource = capacity - allocated
NodeAvailable(node) == Sub(node.capacity, node.allocatedResource)

\* node.AddAllocation: subtracts from available, a known UUID is not added again
NodeAddAllocation(node, alloc) ==
    IF alloc.UUID \in DOMAIN node.allocations THEN node
    ELSE [node EXCEPT
            !.allocations = MapPut(@, alloc.UUID, alloc),
            !.allocatedResource = Add(@, alloc.AllocatedResource)]

\* node.RemoveAllocation: the node without the allocation
NodeRemoveAllocation(node, uuid) ==
    IF uuid \notin DOMAIN node.allocations THEN node
    ELSE [node EXCEPT
            !.allocations = MapDel(@, uuid),
            !.allocatedResource = Sub(@, node.allocations[uuid].AllocatedResource)]

\* app.AddAllocation
AppAddAllocation(app, alloc) ==
    [app EXCEPT
        !.allocations = MapPut(@, alloc.UUID, alloc),
        !.allocatedResource = Add(@, alloc.AllocatedResource)]

\* app.RemoveAllocation: the application without the allocation
AppRemoveAllocation(app, uuid) ==
    IF uuid \notin DOMAIN app.allocations THEN app
    ELSE [app EXCEPT
            !.allocations = MapDel(@, uuid),
            !.allocatedResource = Sub(@, app.allocations[uuid].AllocatedResource)]

(***************************************************************************)
(* The partition, as a record of its fields, for the operations that are   *)
(* called from more than one place.                                        *)
(***************************************************************************)
PC == [totalPartitionResource |-> totalPartitionResource, queues |-> queues,
       nodes |-> nodes, applications |-> applications,
       allocations |-> allocations, reservedApps |-> reservedApps]

Install(pc) ==
    /\ totalPartitionResource' = pc.totalPartitionResource
    /\ queues' = pc.queues
    /\ nodes' = pc.nodes
    /\ applications' = pc.applications
    /\ allocations' = pc.allocations
    /\ reservedApps' = pc.reservedApps

\* what the last call was and what it returned: the operation, the id and the
\* other arguments it was called with, a flag of the outcome, the error and the
\* UUIDs of the allocations returned
Result(op, id, res, flag, err, ret) ==
    [op |-> op, id |-> id, args |-> <<>>, res |-> res, flag |-> flag,
     err |-> err, ret |-> ret]

\* the UUIDs some object of the partition knows
KnownUUIDs(pc) ==
    (DOMAIN pc.allocations)
    \cup UNION {DOMAIN pc.nodes[n].allocations : n \in DOMAIN pc.nodes}
    \cup UNION {DOMAIN pc.applications[a].allocations : a \in DOMAIN pc.applications}

\* app.RemoveAllAllocations: returns the prior list, zeroes the used resource
\* of the application and cascades the decrement to the queue
AppRemoveAllAllocations(pc, app) ==
    LET dec == decAllocatedResource(pc.queues, app.queue, app.allocatedResource)
    IN  [released |-> app.allocations,
         app |-> [app EXCEPT !.allocations = EmptyMap,
                             !.allocatedResource = NewResource],
         queues |-> dec.qs]

\* unReserveCount without the cleanup of the key
unReserveCountKeepKey(reserved, appID, asks) ==
    IF appID \in DOMAIN reserved
    THEN [reserved EXCEPT ![appID] = @ - asks]
    ELSE reserved

\* Update the reservation counter for the app
unReserveCount(reserved, appID, asks) ==
    IF appID \in DOMAIN reserved
    THEN IF reserved[appID] = asks
         THEN MapDel(reserved, appID)
         ELSE [reserved EXCEPT ![appID] = @ - asks]
    ELSE reserved

(***************************************************************************)
(* The object state machine of the partition.                              *)
(***************************************************************************)
Start == "Start"
Remove == "Remove"
Stop == "Stop"
Events == {Start, Remove, Stop}

\* the state after an event; an event without a transition leaves the state
Transition(state, event) ==
    CASE event = Start /\ state = New -> Active
      [] event = Remove /\ state = Active -> Draining
      [] event = Stop -> Stopped
      [] OTHER -> state

\* stateMachine.Event: the state after the event, whether the state machine
\* made the transition (it returns nil), and whether the event asks for the
\* state the object is in already (it returns "no transition")
Event(state, event) ==
    [state |-> Transition(state, event),
     done |-> Transition(state, event) # state,
     same |-> \/ event = Start /\ state = Active
              \/ event = Remove /\ state = Draining
              \/ event = Stop /\ state = Stopped]

\* Handle the state event for the queue: stateTime is set when the transition
\* was done (the count of the times it was set stands for the time)
HandleQueueEvent(queue, event) ==
    LET e == Event(queue.state, event)
    IN  [queue EXCEPT !.state = e.state,
                      !.stateTime = IF e.done THEN @ + 1 ELSE @]

\* a partition that is never seen as draining
neverDraining == FALSE

isDraining == pstate = Draining

isStopped == pstate = Stopped

(***************************************************************************)
(* Recovery of the allocations a node reports, and the removal of a node.  *)
(***************************************************************************)
\* Add an allocation to the partition/node/application/queue during node
\* registration.  Returns the error flag and the partition as the call leaves it.
addAllocation(pc, alloc) ==
    IF isStopped THEN [err |-> TRUE, pc |-> pc]
    ELSE IF alloc.UUID = NoUUID THEN [err |-> TRUE, pc |-> pc]
    ELSE IF alloc.NodeID \notin DOMAIN pc.nodes THEN [err |-> TRUE, pc |-> pc]
    ELSE IF alloc.ApplicationID \notin DOMAIN pc.applications
         THEN [err |-> TRUE, pc |-> pc]
    ELSE LET node == pc.nodes[alloc.NodeID]
             app == pc.applications[alloc.ApplicationID]
             inc == IncAllocatedResource(pc.queues, app.queue,
                                         alloc.AllocatedResource, TRUE)
         IN  IF ~node.schedulable THEN [err |-> TRUE, pc |-> pc]
             ELSE IF inc.err
                  THEN [err |-> TRUE, pc |-> [pc EXCEPT !.queues = inc.qs]]
             ELSE [err |-> FALSE,
                   pc |-> [pc EXCEPT
                       !.queues = inc.qs,
                       !.nodes[alloc.NodeID] = NodeAddAllocation(node, alloc),
                       !.applications[alloc.ApplicationID] =
                           AppAddAllocation(app, alloc),
                       !.allocations = MapPut(@, alloc.UUID, alloc)]]

RECURSIVE removeNodeAllocations(_, _, _)
\* Remove all allocations that are assigned to a node as part of the node
\* removal: todo are the UUIDs of the node still to walk over.
removeNodeAllocations(pc, node, todo) ==
    IF todo = {} THEN [pc |-> pc, released |-> {}]
    ELSE LET key == CHOOSE u \in todo : TRUE
             alloc == node.allocations[key]
             allocID == alloc.UUID
             appID == alloc.ApplicationID
         IN  IF appID \notin DOMAIN pc.applications
             THEN removeNodeAllocations(pc, node, todo \ {key})
             ELSE IF allocID \notin DOMAIN pc.applications[appID].allocations
             THEN removeNodeAllocations(pc, node, todo \ {key})
             ELSE LET app == pc.applications[appID]
                      dec == decAllocatedResource(pc.queues, app.queue,
                                                  alloc.AllocatedResource)
                      next == [pc EXCEPT
                                  !.applications[appID] =
                                      AppRemoveAllocation(app, allocID),
                                  !.queues = dec.qs]
                      rest == removeNodeAllocations(next, node, todo \ {key})
                  IN  [pc |-> rest.pc, released |-> {alloc} \cup rest.released]

RECURSIVE queuesUnReserve(_, _, _)
\* the loop of node.UnReserveApps over the applications that held a
\* reservation on the node: each unreserves in its queue
queuesUnReserve(pc, qs, todo) ==
    IF todo = {} THEN qs
    ELSE LET a == CHOOSE x \in todo : TRUE
             q == pc.applications[a].queue
             qs1 == IF a \notin DOMAIN qs[q].reservedApps THEN qs
                    ELSE IF qs[q].reservedApps[a] <= 1
                         THEN [qs EXCEPT ![q].reservedApps = MapDel(@, a)]
                         ELSE [qs EXCEPT ![q].reservedApps[a] = @ - 1]
         IN  queuesUnReserve(pc, qs1, todo \ {a})

\* node.UnReserveApps: the applications reserved on the node, each with the
\* number of reservations released, and the applications and their queues
\* without them
NodeUnReserveApps(pc, node) ==
    LET held(a) == a \in DOMAIN pc.applications
                   /\ node.NodeID \in pc.applications[a].reservations
    IN  [releasedAsks |-> [a \in node.reservations |-> IF held(a) THEN 1 ELSE 0],
         applications |-> [a \in DOMAIN pc.applications |->
                              [pc.applications[a] EXCEPT
                                  !.reservations = @ \ {node.NodeID}]],
         queues |-> queuesUnReserve(pc, pc.queues,
                                    {a \in node.reservations : held(a)})]

\* removeNodeInternal without the update of the partition reservations
unReserveCountsSkipped(reserved, releasedAsks) == reserved

RECURSIVE unReserveCounts(_, _)
\* update the partition reservations based on the node clean up
unReserveCounts(reserved, releasedAsks) ==
    IF DOMAIN releasedAsks = {} THEN reserved
    ELSE LET appID == CHOOSE a \in DOMAIN releasedAsks : TRUE
         IN  unReserveCounts(unReserveCount(reserved, appID, releasedAsks[appID]),
                             MapDel(releasedAsks, appID))

\* removeNodeInternal without the update of the total and of the root max
removeNodeInternalKeepTotal(pc, nodeID) ==
    IF nodeID \notin DOMAIN pc.nodes
    THEN [pc |-> pc, released |-> {}, found |-> FALSE]
    ELSE LET node == pc.nodes[nodeID]
             r == removeNodeAllocations([pc EXCEPT !.nodes = MapDel(@, nodeID)],
                                        node, DOMAIN node.allocations)
             un == NodeUnReserveApps(r.pc, node)
         IN  [pc |-> [r.pc EXCEPT
                        !.queues = un.queues,
                        !.applications = un.applications,
                        !.reservedApps = unReserveCounts(@, un.releasedAsks)],
              released |-> r.released, found |-> TRUE]

\* Remove a node from the partition. It returns all removed allocations.
removeNodeInternal(pc, nodeID) ==
    IF nodeID \notin DOMAIN pc.nodes
    THEN [pc |-> pc, released |-> {}, found |-> FALSE]
    ELSE LET node == pc.nodes[nodeID]
             r == removeNodeAllocations([pc EXCEPT !.nodes = MapDel(@, nodeID)],
                                        node, DOMAIN node.allocations)
             total == Sub(r.pc.totalPartitionResource, node.capacity)
             un == NodeUnReserveApps(r.pc, node)
         IN  [pc |-> [r.pc EXCEPT
                        !.totalPartitionResource = total,
                        !.queues = setMaxResource(un.queues, RootQueue, total),
                        !.applications = un.applications,
                        !.reservedApps = unReserveCounts(@, un.releasedAsks)],
              released |-> r.released, found |-> TRUE]

RECURSIVE replay(_, _, _, _)
\* the loop of AddNode over the existing allocations, from position current:
\* a failure removes the node again
replay(pc, nodeID, existingAllocations, current) ==
    IF current > Len(existingAllocations)
    THEN [err |-> FALSE, pc |-> pc, done |-> {}]
    ELSE LET r == addAllocation(pc, existingAllocations[current])
         IN  IF r.err
             THEN [err |-> TRUE, pc |-> removeNodeInternal(r.pc, nodeID).pc,
                   done |-> {}]
             ELSE LET rest == replay(r.pc, nodeID, existingAllocations, current + 1)
                  IN  [err |-> rest.err, pc |-> rest.pc,
                       done |-> {existingAllocations[current].UUID} \cup rest.done]

(***************************************************************************)
(* The configuration the partition is built from, and what the resource    *)
(* manager sends.                                                          *)
(***************************************************************************)
\* the capacity each node registers with
Capacity(nodeID) == IF nodeID = "node-1" THEN Res(2, 1) ELSE Res(1, 1)

\* the resource each application asks for, per allocation
AskRes(appID) == IF appID = "app-1" THEN Res(1, 0) ELSE Res(1, 1)

\* the users that submit each application
Submitters(appID) == IF appID = "app-1" THEN {"alice"} ELSE Users

\* the states each node registers in: schedulable or not
Schedulable(nodeID) == IF nodeID = "node-1" THEN {TRUE} ELSE BOOLEAN

\* the counters of the queues stay within the bound of the model
WithinBound(pc) ==
    \A q \in DOMAIN pc.queues, t \in Types :
        pc.queues[q].allocatedResource[t] <= MaxQueueAlloc

LeafMax == Res(1, 1)
ParentMax == Res(2, 1)

\* root -> leaf, root -> parent -> sub-leaf
ConfiguredQueues ==
    [q \in QueuePaths |->
        CASE q = RootQueue ->
               [Queue(NoQueue, FALSE, Nil, {}, {}) EXCEPT !.children = {QLeaf, QParent}]
          [] q = QLeaf -> Queue(RootQueue, TRUE, LeafMax, {"alice"}, {})
          [] q = QParent ->
               [Queue(RootQueue, FALSE, ParentMax, {}, {"bob"}) EXCEPT
                   !.children = {QSubLeaf}]
          [] q = QSubLeaf -> Queue(QParent, TRUE, Nil, {}, {})]

\* the goroutines that call into the queues
Threads == {"t1", "t2"}

\* a goroutine outside the queue calls: no lock held
Idle == [op |-> "none", alloc |-> Nil, phase |-> "none", locks |-> <<>>,
         newAllocation |-> <<>>, done |-> {}]

\* the placement rules of a configuration without placement rules
NoRules == <<>>

Init ==
    /\ pstate = Active
    /\ rules = NoRules
    /\ callers = [t \in Threads |-> Idle]
    /\ totalPartitionResource = Nil
    /\ queues = ConfiguredQueues
    /\ nodes = EmptyMap
    /\ applications = EmptyMap
    /\ allocations = EmptyMap
    /\ reservedApps = EmptyMap
    /\ inflight = NoAlloc
    /\ last = Result("none", NoID, Nil, FALSE, FALSE, {})

\* the sequences of at most two allocations a node reports: each of a known or
\* unknown application, with a UUID no object of the partition holds or
\* without a UUID
ExistingAllocations(nodeID) ==
    LET fresh == UUIDs \ KnownUUIDs(PC)
        first == IF fresh = {} THEN {NoUUID}
                 ELSE {NoUUID, CHOOSE u \in fresh : \A v \in fresh : u <= v}
        one(uuids) == {Reported(u, a, nodeID, AskRes(a)) :
                          u \in uuids, a \in AppIDs}
        second(u) == IF fresh \ {u} = {} THEN {NoUUID}
                     ELSE {NoUUID, CHOOSE w \in fresh \ {u} :
                                      \A v \in fresh \ {u} : w <= v}
    IN  {<<>>} \cup {<<x>> : x \in one(first)}
        \cup UNION {{<<x, y>> : y \in one(second(x.UUID))} : x \in one(first)}

(***************************************************************************)
(* The operations of the partition.                                        *)
(***************************************************************************)
\* the event handled with pc.stateTime set whatever the state machine returns
handlePartitionEventStamped ==
    \E event \in Events, err \in BOOLEAN :
        LET e == Event(pstate, event)
        IN  /\ (e.done \/ e.same) => ~err
            /\ pstate' = e.state
            /\ last' = Result("handlePartitionEvent", event, Nil, TRUE, err, {})
            /\ UNCHANGED <<rules, callers, totalPartitionResource, queues, nodes,
                           applications, allocations, reservedApps, inflight>>

\* Handle the state event for the partition.  The flag of the result says
\* that pc.stateTime was set: when the state machine made the transition.  An
\* event that is neither a transition nor asks for the current state returns
\* what the state machine returns for it, an error or none.
handlePartitionEvent ==
    \E event \in Events, err \in BOOLEAN :
        LET e == Event(pstate, event)
        IN  /\ (e.done \/ e.same) => ~err
            /\ pstate' = e.state
            /\ last' = Result("handlePartitionEvent", event, Nil, e.done, err, {})
            /\ UNCHANGED <<rules, callers, totalPartitionResource, queues, nodes,
                           applications, allocations, reservedApps, inflight>>

\* AddNode without the check for an existing node with the same id
AddNodeReplace ==
    \E nodeID \in NodeIDs :
    \E schedulable \in Schedulable(nodeID) :
    \E existingAllocations \in ExistingAllocations(nodeID) :
        LET capacity == Capacity(nodeID)
            node == NewNode(nodeID, capacity, schedulable)
            total == IF totalPartitionResource = Nil THEN capacity
                     ELSE Add(totalPartitionResource, capacity)
            added == [PC EXCEPT
                        !.totalPartitionResource = total,
                        !.queues = setMaxResource(@, RootQueue, total),
                        !.nodes = MapPut(@, nodeID, node)]
            r == replay(added, nodeID, existingAllocations, 1)
        IN  /\ UNCHANGED <<pstate, rules, callers, inflight>>
            /\ WithinBound(r.pc)
            /\ IF isDraining \/ isStopped
               THEN /\ last' = Result("AddNode", nodeID, Nil, FALSE, TRUE, {})
                    /\ UNCHANGED <<totalPartitionResource, queues, nodes,
                                   applications, allocations, reservedApps>>
               ELSE /\ Install(r.pc)
                    /\ last' = Result("AddNode", nodeID, Nil, r.err, r.err,
                                      r.done)

\* Add the node to the partition and process the allocations that are
\* reported by the node: the call for one node and one list of allocations.
\* AddNode past its checks: update the resources available in the cluster, add
\* the node and add the allocations that exist on the node
addNode(pc, nodeID, schedulable, existingAllocations) ==
    LET capacity == Capacity(nodeID)
        node == NewNode(nodeID, capacity, schedulable)
        total == IF pc.totalPartitionResource = Nil THEN capacity
                 ELSE Add(pc.totalPartitionResource, capacity)
        added == [pc EXCEPT
                    !.totalPartitionResource = total,
                    !.queues = setMaxResource(@, RootQueue, total),
                    !.nodes = MapPut(@, nodeID, node)]
    IN  replay(added, nodeID, existingAllocations, 1)

AddNodeWithLocked(nodeID, schedulable, existingAllocations) ==
    LET r == addNode(PC, nodeID, schedulable, existingAllocations)
    IN  /\ UNCHANGED <<pstate, rules, inflight>>
        /\ WithinBound(r.pc)
        /\ IF isDraining \/ isStopped \/ nodeID \in DOMAIN nodes
           THEN /\ last' = Result("AddNode", nodeID, Nil, FALSE, TRUE, {})
                /\ UNCHANGED <<totalPartitionResource, queues, nodes,
                               applications, allocations, reservedApps>>
           ELSE /\ Install(r.pc)
                /\ last' = Result("AddNode", nodeID, Nil, r.err, r.err,
                                  r.done)

\* AddNode as one step, from pc.Lock() to the deferred pc.Unlock()
AddNodeWith(nodeID, schedulable, existingAllocations) ==
    AddNodeWithLocked(nodeID, schedulable, existingAllocations) /\ UNCHANGED callers

\* Add the node to the partition and process the allocations that are
\* reported by the node.
AddNode ==
    \E nodeID \in NodeIDs :
    \E schedulable \in Schedulable(nodeID) :
    \E existingAllocations \in ExistingAllocations(nodeID) :
        AddNodeWith(nodeID, schedulable, existingAllocations)

\* AddNode of a schedulable node that reports one allocation, under a UUID of
\* the choice of the resource manager
AddNodeRecovered ==
    \E nodeID \in NodeIDs, appID \in AppIDs, uuid \in UUIDs :
        AddNodeWith(nodeID, TRUE,
                    <<Reported(uuid, appID, nodeID, AskRes(appID))>>)

\* AddNode of a schedulable node that reports no allocations
AddNodeEmpty ==
    \E nodeID \in NodeIDs : AddNodeWith(nodeID, TRUE, <<>>)


\* Remove a node from the partition. It returns all removed allocations.
removeNodeLocked ==
    \E nodeID \in NodeIDs :
        LET r == removeNodeInternal(PC, nodeID)
        IN  /\ Install(r.pc)
            /\ last' = Result("removeNode", nodeID, Nil, r.found, FALSE,
                              {x.UUID : x \in r.released})
            /\ UNCHANGED <<pstate, rules, inflight>>

\* removeNode as one step, from pc.Lock() to the deferred pc.Unlock()
removeNode ==
    removeNodeLocked /\ UNCHANGED callers

\* node.SetSchedulable: an update of the node by the resource manager drains
\* or restores the node
SetSchedulable ==
    \E nodeID \in DOMAIN nodes, schedulable \in BOOLEAN :
        /\ nodes' = [nodes EXCEPT ![nodeID].schedulable = schedulable]
        /\ last' = Result("SetSchedulable", nodeID, Nil, schedulable, FALSE, {})
        /\ UNCHANGED <<pstate, rules, callers, totalPartitionResource, queues, applications,
                       allocations, reservedApps, inflight>>

RECURSIVE getQueue(_, _)
\* Get the queue from the structure based on the fully qualified name, walking
\* down from the root over the children; NoQueue if the queue is not found.
getQueue(qs, name) ==
    IF name \notin DOMAIN qs THEN NoQueue
    ELSE IF qs[name].Parent = NoQueue THEN name
    ELSE IF /\ getQueue(qs, qs[name].Parent) # NoQueue
            /\ name \in qs[qs[name].Parent].children
         THEN name
         ELSE NoQueue

QueueNames == QueuePaths \cup {"root.unknown"}

\* queue.AddApplication and app.SetQueue: link the application and the queue
QueueAddApplication(qs, q, appID) ==
    [qs EXCEPT ![q].applications = @ \cup {appID}]

\* queue.RemoveApplication: unlink the application from the queue
QueueRemoveApplication(qs, q, appID) ==
    [qs EXCEPT ![q].applications = @ \ {appID}]

\* queue.UnReserve: the reservation count of the application in the queue
QueueUnReserve(qs, q, appID, num) ==
    IF appID \notin DOMAIN qs[q].reservedApps THEN qs
    ELSE IF qs[q].reservedApps[appID] <= num
         THEN [qs EXCEPT ![q].reservedApps = MapDel(@, appID)]
         ELSE [qs EXCEPT ![q].reservedApps[appID] = @ - num]

\* queue.Reserve
QueueReserve(qs, q, appID) ==
    IF appID \in DOMAIN qs[q].reservedApps
    THEN [qs EXCEPT ![q].reservedApps[appID] = @ + 1]
    ELSE [qs EXCEPT ![q].reservedApps = MapPut(@, appID, 1)]

\* app.RemoveAllocationAsk(""): all asks are removed and the reservations of
\* the application are cancelled; returns the number of reserved asks released
AppRemoveAllocationAsk(pc, app) ==
    LET num == Cardinality(app.reservations)
    IN  [reservedAsks |-> num,
         app |-> [app EXCEPT !.ask = [res |-> NewResource, repeat |-> 0],
                             !.reservations = {}],
         nodes |-> [n \in DOMAIN pc.nodes |->
                      IF n \in app.reservations
                      THEN [pc.nodes[n] EXCEPT
                               !.reservations = @ \ {app.ApplicationID}]
                      ELSE pc.nodes[n]],
         queues |-> QueueUnReserve(pc.queues, app.queue, app.ApplicationID, num)]

\* Add a new application to the partition (no placement rules are set).
AddApplicationLocked ==
    \E appID \in AppIDs, queueName \in QueueNames :
    \E user \in Submitters(appID) :
        LET app == NewApplication(appID)
            queue == getQueue(queues, queueName)
            rejected ==
                \/ isDraining \/ isStopped
                \/ appID \in DOMAIN applications
                \/ queue = NoQueue
                \/ ~queues[queue].isLeaf
                \/ ~CheckSubmitAccess(queues, queue, user)
        IN  /\ rules = NoRules
            /\ UNCHANGED <<pstate, rules, totalPartitionResource, nodes, allocations,
                           reservedApps, inflight>>
            /\ last' = [Result("AddApplication", appID, Nil, FALSE, rejected, {})
                           EXCEPT !.args = <<queueName, user>>]
            /\ IF rejected
               THEN UNCHANGED <<queues, applications>>
               ELSE /\ queues' = QueueAddApplication(queues, queue, appID)
                    /\ applications' =
                           MapPut(applications, appID, [app EXCEPT !.queue = queue])

\* AddApplication as one step, from pc.Lock() to the deferred pc.Unlock()
AddApplication ==
    AddApplicationLocked /\ UNCHANGED callers

\* AddApplication of an application that is accepted
AddApplicationAccepted == AddApplication /\ ~last'.err

\* AddApplication of an application that is accepted in the leaf queue below
\* root
AddApplicationToLeaf == AddApplicationAccepted /\ last'.args[1] = QLeaf

RECURSIVE removeFromNodes(_, _, _)
\* the loop of removeApplication over the allocations of the application
removeFromNodes(allocs, ns, released) ==
    IF DOMAIN released = {} THEN [allocations |-> allocs, nodes |-> ns]
    ELSE LET key == CHOOSE u \in DOMAIN released : TRUE
             alloc == released[key]
             currentUUID == alloc.UUID
             allocs1 == IF currentUUID \in DOMAIN allocs
                        THEN MapDel(allocs, currentUUID) ELSE allocs
             ns1 == IF alloc.NodeID \notin DOMAIN ns THEN ns
                    ELSE [ns EXCEPT ![alloc.NodeID] =
                             NodeRemoveAllocation(@, currentUUID)]
         IN  removeFromNodes(allocs1, ns1, MapDel(released, key))

\* removeApplication without the delete from the applications map
removeApplicationKeepEntry ==
    \E appID \in AppIDs :
        /\ UNCHANGED <<pstate, rules, callers, totalPartitionResource, inflight>>
        /\ IF appID \notin DOMAIN applications
           THEN /\ last' = Result("removeApplication", appID, Nil, FALSE, FALSE, {})
                /\ UNCHANGED <<queues, nodes, applications, allocations,
                               reservedApps>>
           ELSE LET app == applications[appID]
                    asks == AppRemoveAllocationAsk(PC, app)
                    unlinked == QueueRemoveApplication(asks.queues, app.queue, appID)
                    all == AppRemoveAllAllocations(
                               [PC EXCEPT !.queues = unlinked], asks.app)
                    rest == removeFromNodes(allocations, asks.nodes, all.released)
                IN  /\ applications' = applications
                    /\ reservedApps' = MapDel(reservedApps, appID)
                    /\ queues' = all.queues
                    /\ allocations' = rest.allocations
                    /\ nodes' = rest.nodes
                    /\ last' = Result("removeApplication", appID, Nil, TRUE, FALSE,
                                      DOMAIN all.released)

\* Remove the application from the partition.
removeApplicationLocked ==
    \E appID \in AppIDs :
        /\ UNCHANGED <<pstate, rules, totalPartitionResource, inflight>>
        /\ IF appID \notin DOMAIN applications
           THEN /\ last' = Result("removeApplication", appID, Nil, FALSE, FALSE, {})
                /\ UNCHANGED <<queues, nodes, applications, allocations,
                               reservedApps>>
           ELSE LET app == applications[appID]
                    asks == AppRemoveAllocationAsk(PC, app)
                    unlinked == QueueRemoveApplication(asks.queues, app.queue, appID)
                    all == AppRemoveAllAllocations(
                               [PC EXCEPT !.queues = unlinked], asks.app)
                    rest == removeFromNodes(allocations, asks.nodes, all.released)
                IN  /\ applications' = MapDel(applications, appID)
                    /\ reservedApps' = MapDel(reservedApps, appID)
                    /\ queues' = all.queues
                    /\ allocations' = rest.allocations
                    /\ nodes' = rest.nodes
                    /\ last' = Result("removeApplication", appID, Nil, TRUE, FALSE,
                                      DOMAIN all.released)

\* removeApplication as one step, from pc.Lock() to the deferred pc.Unlock()
removeApplication ==
    removeApplicationLocked /\ UNCHANGED callers

RECURSIVE releaseFromNodes(_, _, _)
\* the loop of removeAllocation over the released allocations: the node is
\* updated, the allocation removed from the partition and the total tracked
releaseFromNodes(allocs, ns, released) ==
    IF DOMAIN released = {}
    THEN [allocations |-> allocs, nodes |-> ns, total |-> NewResource]
    ELSE LET key == CHOOSE u \in DOMAIN released : TRUE
             alloc == released[key]
             uuid == alloc.UUID
             onNode == /\ alloc.NodeID \in DOMAIN ns
                       /\ uuid \in DOMAIN ns[alloc.NodeID].allocations
             allocs1 == IF onNode THEN MapDel(allocs, uuid) ELSE allocs
             ns1 == IF onNode
                    THEN [ns EXCEPT ![alloc.NodeID] = NodeRemoveAllocation(@, uuid)]
                    ELSE ns
             rest == releaseFromNodes(allocs1, ns1, MapDel(released, key))
         IN  [allocations |-> rest.allocations, nodes |-> rest.nodes,
              total |-> IF onNode THEN Add(alloc.AllocatedResource, rest.total)
                        ELSE rest.total]

\* Remove one allocation of the application, or all of them (no UUID given).
removeAllocation ==
    \E appID \in AppIDs, uuid \in UUIDs \cup {NoUUID} :
        /\ UNCHANGED <<pstate, rules, callers, totalPartitionResource, reservedApps, inflight>>
        /\ IF appID \notin DOMAIN applications
           THEN /\ last' = Result("removeAllocation", appID, Nil, FALSE, FALSE, {})
                /\ UNCHANGED <<queues, nodes, applications, allocations>>
           ELSE LET app == applications[appID]
                    all == AppRemoveAllAllocations(PC, app)
                    one == AppRemoveAllocation(app, uuid)
                    releasedAllocs ==
                        IF uuid = NoUUID THEN all.released
                        ELSE IF uuid \in DOMAIN app.allocations
                             THEN [u \in {uuid} |-> app.allocations[u]]
                             ELSE EmptyMap
                    app1 == IF uuid = NoUUID THEN all.app ELSE one
                    qs1 == IF uuid = NoUUID THEN all.queues ELSE queues
                    rest == releaseFromNodes(allocations, nodes, releasedAllocs)
                    dec == decAllocatedResource(qs1, app.queue, rest.total)
                IN  /\ applications' = [applications EXCEPT ![appID] = app1]
                    /\ nodes' = rest.nodes
                    /\ allocations' = rest.allocations
                    /\ queues' = dec.qs
                    /\ last' = Result("removeAllocation", appID, Nil,
                                      uuid = NoUUID, FALSE, DOMAIN releasedAllocs)

(***************************************************************************)
(* Asks and the allocation cycle.                                          *)
(***************************************************************************)
\* app.AddAllocationAsk: the ask of the application is set or replaced
AddAllocationAsk ==
    \E appID \in DOMAIN applications, repeat \in 1..MaxRepeat :
        /\ applications' = [applications EXCEPT
                               ![appID].ask = [res |-> AskRes(appID),
                                               repeat |-> repeat]]
        /\ last' = Result("AddAllocationAsk", appID, Nil, FALSE, FALSE, {})
        /\ UNCHANGED <<pstate, rules, callers, totalPartitionResource, queues, nodes, allocations,
                       reservedApps, inflight>>

\* the first ask of an application
AddAllocationAskOnce ==
    \E appID \in DOMAIN applications :
        /\ applications[appID].ask.res = NewResource
        /\ AddAllocationAsk
        /\ last'.id = appID

\* removeAllocationAsk that leaves the reservation counter of the partition
\* as it is
removeAllocationAskUncounted ==
    \E appID \in AppIDs :
        /\ UNCHANGED <<pstate, rules, callers, totalPartitionResource, allocations,
                       inflight, reservedApps>>
        /\ IF appID \notin DOMAIN applications
           THEN /\ UNCHANGED <<queues, nodes, applications>>
                /\ last' = Result("removeAllocationAsk", appID, Nil, FALSE, FALSE, {})
           ELSE LET asks == AppRemoveAllocationAsk(PC, applications[appID])
                IN  /\ applications' = [applications EXCEPT ![appID] = asks.app]
                    /\ nodes' = asks.nodes
                    /\ queues' = asks.queues
                    /\ last' = Result("removeAllocationAsk", appID, Nil,
                                      asks.reservedAsks # 0, FALSE, {})

\* Remove the asks of the application and clean up its reservations.
removeAllocationAsk ==
    \E appID \in AppIDs :
        /\ UNCHANGED <<pstate, rules, callers, totalPartitionResource, allocations,
                       inflight>>
        /\ IF appID \notin DOMAIN applications
           THEN /\ UNCHANGED <<queues, nodes, applications, reservedApps>>
                /\ last' = Result("removeAllocationAsk", appID, Nil, FALSE, FALSE, {})
           ELSE LET asks == AppRemoveAllocationAsk(PC, applications[appID])
                IN  /\ applications' = [applications EXCEPT ![appID] = asks.app]
                    /\ nodes' = asks.nodes
                    /\ queues' = asks.queues
                    /\ reservedApps' =
                           IF asks.reservedAsks # 0
                           THEN unReserveCount(reservedApps, appID, asks.reservedAsks)
                           ELSE reservedApps
                    /\ last' = Result("removeAllocationAsk", appID, Nil,
                                      asks.reservedAsks # 0, FALSE, {})

\* the pending ask of an application, as a resource
AppPending(app) ==
    [t \in Types |-> app.ask.res[t] * app.ask.repeat]

\* root.GetPendingResource: the pending resources of the applications in the
\* queues
RootPending == SumRes([a \in DOMAIN applications |-> AppPending(applications[a])])

\* node.canAllocate: the node is schedulable, not reserved by another
\* application and the ask fits in what is available
NodeCanAllocate(node, appID, res) ==
    /\ node.schedulable
    /\ node.reservations \subseteq {appID}
    /\ FitIn(NodeAvailable(node), res)

\* the smallest UUID no object of the partition holds
NewUUID(pc) ==
    LET fresh == UUIDs \ KnownUUIDs(pc)
    IN  IF fresh = {} THEN NoUUID
        ELSE CHOOSE u \in fresh : \A v \in fresh : u <= v

\* the allocation of one repeat of the ask of the application on the node, as
\* the descent through the queues makes it: queue, node and application are
\* updated
TryNode(pc, appID, nodeID, reservedNodeID, result) ==
    LET app == pc.applications[appID]
        res == app.ask.res
        inc == IncAllocatedResource(pc.queues, app.queue, res, FALSE)
        alloc == Allocation(NewUUID(pc), appID, nodeID, reservedNodeID, res, result)
    IN  [ok |-> /\ app.ask.repeat > 0
                /\ NodeCanAllocate(pc.nodes[nodeID], appID, res)
                /\ ~inc.err
                /\ NewUUID(pc) # NoUUID,
         alloc |-> alloc,
         pc |-> [pc EXCEPT
                    !.queues = inc.qs,
                    !.nodes[nodeID] = NodeAddAllocation(@, alloc),
                    !.applications[appID] =
                        [AppAddAllocation(app, alloc) EXCEPT
                            !.ask.repeat = @ - 1]]]

\* queue.TryAllocate for the candidate (application, node): Allocated when the
\* node and the queues fit, Reserved when the node fits and a queue max blocks
QueueTryAllocate(pc, appID, nodeID) ==
    LET app == pc.applications[appID]
        node == pc.nodes[nodeID]
        res == app.ask.res
        try == TryNode(pc, appID, nodeID, NoID, Allocated)
        blocked == /\ app.ask.repeat > 0
                   /\ NodeCanAllocate(node, appID, res)
                   /\ IncAllocatedResource(pc.queues, app.queue, res, FALSE).err
                   /\ nodeID \notin app.reservations
                   /\ node.reservations = {}
    IN  IF try.ok THEN [alloc |-> try.alloc, pc |-> try.pc]
        ELSE IF blocked
             THEN [alloc |-> Allocation(NoUUID, appID, nodeID, NoID, res, Reserved),
                   pc |-> pc]
             ELSE [alloc |-> NoAlloc, pc |-> pc]

\* queue.TryReservedAllocate for the reservation of the application on the
\* reserved node and a node to try
QueueTryReservedAllocate(pc, appID, reservedNodeID, nodeID) ==
    LET app == pc.applications[appID]
        res == app.ask.res
        onReserved == TryNode(pc, appID, reservedNodeID, NoID, AllocatedReserved)
        onOther == TryNode(pc, appID, nodeID, reservedNodeID, AllocatedReserved)
    IN  IF app.ask.repeat = 0
        THEN [alloc |-> Allocation(NoUUID, appID, reservedNodeID, NoID, res,
                                   Unreserved),
              pc |-> pc]
        ELSE IF onReserved.ok THEN [alloc |-> onReserved.alloc, pc |-> onReserved.pc]
        ELSE IF nodeID # reservedNodeID /\ onOther.ok
             THEN [alloc |-> onOther.alloc, pc |-> onOther.pc]
             ELSE [alloc |-> NoAlloc, pc |-> pc]

\* tryAllocate that descends only when every resource type is pending
tryAllocateAllTypes ==
    /\ inflight = NoAlloc
    /\ \A t \in Types : RootPending[t] > 0
    /\ \E appID \in DOMAIN applications, nodeID \in DOMAIN nodes :
        LET r == QueueTryAllocate(PC, appID, nodeID)
        IN  /\ r.alloc # NoAlloc
            /\ WithinBound(r.pc)
            /\ Install(r.pc)
            /\ inflight' = r.alloc
    /\ UNCHANGED <<pstate, rules, callers, last>>

\* Try regular allocation for the partition: the descent.  The result waits
\* in inflight for allocate.
tryAllocate ==
    /\ inflight = NoAlloc
    /\ StrictlyGreaterThanZero(RootPending)
    /\ \E appID \in DOMAIN applications, nodeID \in DOMAIN nodes :
        LET r == QueueTryAllocate(PC, appID, nodeID)
        IN  /\ r.alloc # NoAlloc
            /\ WithinBound(r.pc)
            /\ Install(r.pc)
            /\ inflight' = r.alloc
    /\ UNCHANGED <<pstate, rules, callers, last>>

\* Try process reservations for the partition: the descent.
tryReservedAllocate ==
    /\ inflight = NoAlloc
    /\ StrictlyGreaterThanZero(RootPending)
    /\ \E appID \in DOMAIN applications, nodeID \in DOMAIN nodes :
       \E reservedNodeID \in applications[appID].reservations \cap DOMAIN nodes :
        LET r == QueueTryReservedAllocate(PC, appID, reservedNodeID, nodeID)
        IN  /\ r.alloc # NoAlloc
            /\ WithinBound(r.pc)
            /\ Install(r.pc)
            /\ inflight' = r.alloc
    /\ UNCHANGED <<pstate, rules, callers, last>>

\* app.Reserve: fails if the application is reserved on the node already or
\* the node is reserved; records the reservation in the application and the node
AppReserve(pc, appID, nodeID) ==
    IF \/ nodeID \in pc.applications[appID].reservations
       \/ pc.nodes[nodeID].reservations # {}
    THEN [err |-> TRUE, pc |-> pc]
    ELSE [err |-> FALSE,
          pc |-> [pc EXCEPT !.applications[appID].reservations = @ \cup {nodeID},
                            !.nodes[nodeID].reservations = @ \cup {appID}]]

\* app.UnReserve: returns the number of reservations removed
AppUnReserve(pc, appID, nodeID) ==
    LET num == IF nodeID \in pc.applications[appID].reservations THEN 1 ELSE 0
    IN  [num |-> num,
         pc |-> [pc EXCEPT !.applications[appID].reservations = @ \ {nodeID},
                           !.nodes[nodeID].reservations = @ \ {appID}]]

\* Process the reservation in the scheduler
reserveUncounted(pc, appID, nodeID) ==
    IF nodeID \in pc.applications[appID].reservations THEN pc
    ELSE LET r == AppReserve(pc, appID, nodeID)
         IN  IF r.err THEN r.pc
             ELSE [r.pc EXCEPT
                     !.queues = QueueReserve(@, r.pc.applications[appID].queue, appID)]

\* Process the reservation in the scheduler
reserve(pc, appID, nodeID) ==
    IF nodeID \in pc.applications[appID].reservations THEN pc
    ELSE LET r == AppReserve(pc, appID, nodeID)
         IN  IF r.err THEN r.pc
             ELSE [r.pc EXCEPT
                     !.queues = QueueReserve(@, r.pc.applications[appID].queue, appID),
                     !.reservedApps =
                         IF appID \in DOMAIN r.pc.reservedApps
                         THEN [@ EXCEPT ![appID] = @ + 1]
                         ELSE MapPut(@, appID, 1)]

\* unReserve that leaves the reservation in place
unReserveNothing(pc, appID, nodeID) == pc

\* Process the unreservation in the scheduler
unReserve(pc, appID, nodeID) ==
    IF appID \notin DOMAIN pc.reservedApps \/ pc.reservedApps[appID] = 0 THEN pc
    ELSE LET r == AppUnReserve(pc, appID, nodeID)
         IN  [r.pc EXCEPT
                !.queues = QueueUnReserve(@, r.pc.applications[appID].queue,
                                          appID, r.num),
                !.reservedApps = unReserveCount(@, appID, r.num)]

\* the UUIDs common.GetNewUUID may return when the UUID of the allocation
\* clashes with a key of the allocations map
RegenUUIDs == 1..(MaxUUID + 1)

\* Safeguard against clashes: the UUID the allocation is stored under, its own
\* unless that is a key of pc.allocations already, then a new one that is not
CommitUUIDs(alloc) ==
    IF alloc.UUID \in DOMAIN allocations
    THEN RegenUUIDs \ DOMAIN allocations
    ELSE {alloc.UUID}

\* alloc.UUID = allocationUUID: the allocation is the object the node and the
\* application hold under the UUID it was scheduled with
Renamed(pc, alloc, uuid) ==
    LET rename(m) == IF alloc.UUID \in DOMAIN m /\ m[alloc.UUID] = alloc
                     THEN [m EXCEPT ![alloc.UUID].UUID = uuid]
                     ELSE m
    IN  [pc EXCEPT
            !.nodes = [n \in DOMAIN @ |->
                          [@[n] EXCEPT !.allocations = rename(@)]],
            !.applications = [a \in DOMAIN @ |->
                                 [@[a] EXCEPT !.allocations = rename(@)]]]

\* the allocation allocate stores when the link to the reserved node is kept
StoredWithReservedNode(alloc, uuid) ==
    [alloc EXCEPT !.UUID = uuid]

\* the allocation allocate stores: the link to the reserved node is removed
\* from a promoted reservation, and the UUID is replaced after a clash
Stored(alloc, uuid) ==
    [alloc EXCEPT !.ReservedNodeID =
                      IF alloc.Result = AllocatedReserved THEN NoID ELSE @,
                  !.UUID = uuid]

\* Process the allocation and make the left over changes in the partition.
allocateLocked ==
    /\ inflight # NoAlloc
    /\ inflight' = NoAlloc
    /\ UNCHANGED <<pstate, rules>>
    /\ LET alloc == inflight
           appID == alloc.ApplicationID
           nodeID == IF alloc.ReservedNodeID = NoID THEN alloc.NodeID
                     ELSE alloc.ReservedNodeID
           nothing == /\ UNCHANGED <<totalPartitionResource, queues, nodes,
                                     applications, allocations, reservedApps>>
                      /\ last' = Result("allocate", appID, Nil,
                                        FALSE, TRUE, {})
       IN  IF appID \notin DOMAIN applications THEN nothing
           ELSE IF nodeID \notin DOMAIN nodes THEN nothing
           ELSE IF alloc.Result = Reserved
                THEN /\ Install(reserve(PC, appID, nodeID))
                     /\ last' = Result("allocate", appID, Nil,
                                       FALSE, TRUE, {})
           ELSE IF alloc.Result = Unreserved
                THEN /\ Install(unReserve(PC, appID, nodeID))
                     /\ last' = Result("allocate", appID, Nil,
                                       FALSE, TRUE, {})
           ELSE \E uuid \in CommitUUIDs(alloc) :
                LET pc1 == IF alloc.Result = AllocatedReserved
                           THEN unReserve(PC, appID, nodeID) ELSE PC
                    stored == Stored(alloc, uuid)
                    pc2 == IF uuid = alloc.UUID THEN pc1
                           ELSE Renamed(pc1, alloc, uuid)
                IN  /\ Install([pc2 EXCEPT
                                   !.allocations = MapPut(@, uuid, stored)])
                    /\ last' = [Result("allocate", appID, Nil,
                                       TRUE, FALSE, {uuid})
                                   EXCEPT !.args = <<alloc.ReservedNodeID>>]

\* allocate as one step, from pc.Lock() to the deferred pc.Unlock()
allocate ==
    allocateLocked /\ UNCHANGED callers

(***************************************************************************)
(* Calls of the queue accounting on the leaf queues.                       *)
(***************************************************************************)
\* the resources the calls are made with
QueueRes == {Res(1, 0), Res(0, 1), Res(1, 1)}

LeafQueues == {q \in QueuePaths : ConfiguredQueues[q].isLeaf}

\* a call of IncAllocatedResource on a leaf queue
CallIncAllocatedResource ==
    \E q \in LeafQueues, alloc \in QueueRes, nodeReported \in BOOLEAN :
        LET r == IncAllocatedResource(queues, q, alloc, nodeReported)
        IN  /\ WithinBound([queues |-> r.qs])
            /\ queues' = r.qs
            /\ last' = Result("IncAllocatedResource", q, alloc, nodeReported,
                              r.err, {})
            /\ UNCHANGED <<pstate, rules, callers, totalPartitionResource, nodes, applications,
                           allocations, reservedApps, inflight>>

\* a call of decAllocatedResource on a leaf queue
CallDecAllocatedResource ==
    \E q \in LeafQueues, alloc \in QueueRes \cup {Nil} :
        LET r == decAllocatedResource(queues, q, alloc)
        IN  /\ queues' = r.qs
            /\ last' = Result("decAllocatedResource", q, alloc, FALSE, r.err, {})
            /\ UNCHANGED <<pstate, rules, callers, totalPartitionResource, nodes, applications,
                           allocations, reservedApps, inflight>>

(***************************************************************************)
(* Changes of the queue tree: queues marked for removal and queues created *)
(* for a placement rule.                                                   *)
(***************************************************************************)
\* the managed queue marked for removal without its children
MarkQueueForRemovalAlone(qs, q) ==
    IF ~qs[q].isManaged THEN qs
    ELSE [qs EXCEPT ![q] = HandleQueueEvent(@, Remove)]

RECURSIVE MarkQueueForRemoval(_, _)
RECURSIVE markChildren(_, _)
\* Mark the managed queue for removal from the system, and all the managed
\* children with it.  This is a noop on an unmanaged queue.
MarkQueueForRemoval(qs, q) ==
    IF ~qs[q].isManaged THEN qs
    ELSE markChildren([qs EXCEPT ![q] = HandleQueueEvent(@, Remove)],
                      qs[q].children)

\* the loop of MarkQueueForRemoval over the children
markChildren(qs, todo) ==
    IF todo = {} THEN qs
    ELSE LET child == CHOOSE c \in todo : TRUE
         IN  markChildren(MarkQueueForRemoval(qs, child), todo \ {child})

\* a call of MarkQueueForRemoval on a queue of the tree
CallMarkQueueForRemoval ==
    \E q \in DOMAIN queues :
        /\ queues' = MarkQueueForRemoval(queues, q)
        /\ last' = Result("MarkQueueForRemoval", q, Nil, FALSE, FALSE, {})
        /\ UNCHANGED <<pstate, rules, callers, totalPartitionResource, nodes, applications,
                       allocations, reservedApps, inflight>>

\* the queue names createQueue is called with
DynamicNames ==
    {"root.parent.dyn", "root.parent.dyn.sub", "root.leaf.dyn", "rootdyn", "other.dyn"}

\* a name with an upper case letter in its last part
MixedCaseName == "root.parent.Dyn"

\* strings.ToLower(name)
ToLower(name) == IF name = MixedCaseName THEN "root.parent.dyn" ELSE name

\* a name whose last part does not match the expression for queue names
InvalidName == "root.parent.dyn.b@d"

\* strings.HasPrefix(name, "root")
HasRootPrefix(name) == name # "other.dyn"

\* configs.QueueNameRegExp.MatchString of the last part of the name
QueueNameRegExp(name) == name # InvalidName

\* strings.Contains(name, ".")
ContainsDot(name) == name \notin {RootQueue, "rootdyn"}

\* current[0:strings.LastIndex(current, ".")]: the name without its last part
ParentName(name) ==
    CASE name = "root.parent.dyn.sub" -> "root.parent.dyn"
      [] name = InvalidName -> "root.parent.dyn"
      [] name = MixedCaseName -> QParent
      [] name = "root.parent.dyn" -> QParent
      [] name = "root.leaf.dyn" -> QLeaf
      [] name = QSubLeaf -> QParent
      [] name = "other.dyn" -> "other"
      [] OTHER -> RootQueue

\* a child queue added to any queue
addChildQueueUnchecked(qs, q, child) ==
    [err |-> FALSE, qs |-> [qs EXCEPT ![q].children = @ \cup {child}]]

\* Add a new child queue to this queue: not to a leaf and not to a queue that
\* is marked for deletion
addChildQueue(qs, q, child) ==
    IF qs[q].isLeaf THEN [err |-> TRUE, qs |-> qs]
    ELSE IF qs[q].state = Draining THEN [err |-> TRUE, qs |-> qs]
    ELSE [err |-> FALSE, qs |-> [qs EXCEPT ![q].children = @ \cup {child}]]

\* Create a new unmanaged queue and add it below the parent
NewUnmanagedQueue(qs, name, leaf, parent) ==
    LET qi == [Queue(parent, leaf, Nil, {}, {}) EXCEPT !.isManaged = FALSE]
        r == addChildQueue(qs, parent, ToLower(name))
    IN  IF ~QueueNameRegExp(name) THEN [err |-> TRUE, qs |-> qs]
        ELSE IF r.err THEN [err |-> TRUE, qs |-> qs]
        ELSE [err |-> FALSE, qs |-> MapPut(r.qs, ToLower(name), qi)]

RECURSIVE lowestExisting(_, _)
\* the loop of createQueue up the name: the queue furthest down the hierarchy
\* that exists, and the names to create below it, the last part first
lowestExisting(qs, current) ==
    IF getQueue(qs, current) # NoQueue
    THEN [queue |-> current, toCreate |-> <<>>]
    ELSE LET up == lowestExisting(qs, ParentName(current))
         IN  [queue |-> up.queue, toCreate |-> <<current>> \o up.toCreate]

RECURSIVE createDown(_, _, _, _)
\* the loop of createQueue down the names to create, from position i
createDown(qs, toCreate, i, parent) ==
    IF i = 0 THEN [err |-> FALSE, qs |-> qs, queue |-> parent]
    ELSE LET r == NewUnmanagedQueue(qs, toCreate[i], i = 1, parent)
         IN  IF r.err THEN [err |-> TRUE, qs |-> r.qs, queue |-> NoQueue]
             ELSE createDown(r.qs, toCreate, i - 1, ToLower(toCreate[i]))

\* createQueue without the check of the submit access
createQueueNoAccessCheck(qs, name, user) ==
    IF ~HasRootPrefix(name) \/ ~ContainsDot(name)
    THEN [err |-> TRUE, qs |-> qs, queue |-> NoQueue]
    ELSE LET found == lowestExisting(qs, name)
         IN  IF qs[found.queue].isLeaf
             THEN [err |-> TRUE, qs |-> qs, queue |-> NoQueue]
             ELSE createDown(qs, found.toCreate, Len(found.toCreate), found.queue)

\* Create a queue with full hierarchy, for a queue name from a placement rule.
createQueue(qs, name, user) ==
    IF ~HasRootPrefix(name) \/ ~ContainsDot(name)
    THEN [err |-> TRUE, qs |-> qs, queue |-> NoQueue]
    ELSE LET found == lowestExisting(qs, name)
         IN  IF ~CheckSubmitAccess(qs, found.queue, user)
             THEN [err |-> TRUE, qs |-> qs, queue |-> NoQueue]
             ELSE IF qs[found.queue].isLeaf
             THEN [err |-> TRUE, qs |-> qs, queue |-> NoQueue]
             ELSE createDown(qs, found.toCreate, Len(found.toCreate), found.queue)

\* a call of createQueue with the name of a queue that does not exist
CallCreateQueue ==
    \E name \in DynamicNames, user \in Users :
        LET r == createQueue(queues, name, user)
        IN  /\ name \notin DOMAIN queues
            /\ queues' = r.qs
            /\ last' = [Result("createQueue", name, Nil, FALSE, r.err, {})
                           EXCEPT !.args = <<user>>]
            /\ UNCHANGED <<pstate, rules, callers, totalPartitionResource, nodes, applications,
                           allocations, reservedApps, inflight>>

(***************************************************************************)
(* The config reload.                                                      *)
(***************************************************************************)
QAdded == "root.parent.added"

\* a queue of the configuration: Name holds the path the reload computes from
\* the parent's path and the configured name
QueueConfig(name, parent, submit, admin, max, props, children) ==
    [Name |-> name, Parent |-> parent, SubmitACL |-> submit, AdminACL |-> admin,
     Max |-> max, Properties |-> props, Queues |-> children]

\* Merge the properties for the queue: the child overrides the parent
mergeProperties(parent, child) ==
    [k \in (DOMAIN parent) \cup (DOMAIN child) |->
        IF k \in DOMAIN child THEN child[k] ELSE parent[k]]

\* Update an existing managed queue based on the updated configuration, for a
\* configuration whose ACLs and resources parse
updateQueueProps(q, parentProps, conf) ==
    [q EXCEPT !.submitACL = conf.SubmitACL,
              !.adminACL = conf.AdminACL,
              !.isManaged = TRUE,
              !.isLeaf = IF Len(conf.Queues) > 0 THEN FALSE ELSE @,
              !.maxResource = IF conf.Max # Nil THEN conf.Max ELSE @,
              !.properties = mergeProperties(parentProps, conf.Properties)]

\* SetQueueConfig of a queue of the tree
SetQueueConfig(qs, name, conf) ==
    LET parentProps == IF qs[name].Parent = NoQueue THEN EmptyMap
                       ELSE qs[qs[name].Parent].properties
    IN  [qs EXCEPT ![name] = updateQueueProps(@, parentProps, conf)]

\* Create a new managed queue from the configuration and add it below the
\* parent
NewManagedQueue(qs, conf, parent) ==
    LET qi == updateQueueProps(Queue(parent, ~conf.Parent, Nil, {}, {}),
                               qs[parent].properties, conf)
        r == addChildQueue(qs, parent, conf.Name)
    IN  IF r.err THEN [err |-> TRUE, qs |-> qs]
        ELSE [err |-> FALSE, qs |-> MapPut(r.qs, conf.Name, qi)]

RECURSIVE updateQueues(_, _, _, _, _)
\* Update or create the queues of the config below the parent, from position i
\* of the list, and mark the children of the parent that are not in the list
\* for removal; the first error ends the update
updateQueues(qs, config, i, parent, visited) ==
    IF i > Len(config)
    THEN [err |-> FALSE,
          qs |-> markChildren(qs, qs[parent].children \ visited)]
    ELSE LET queueConfig == config[i]
             pathName == queueConfig.Name
             r == IF getQueue(qs, pathName) = NoQueue
                  THEN NewManagedQueue(qs, queueConfig, parent)
                  ELSE [err |-> FALSE,
                        qs |-> SetQueueConfig(qs, pathName, queueConfig)]
         IN  IF r.err THEN r
             ELSE LET sub == updateQueues(r.qs, queueConfig.Queues, 1,
                                          pathName, {})
                  IN  IF sub.err THEN sub
                      ELSE updateQueues(sub.qs, config, i + 1, parent,
                                        visited \cup {pathName})

SortFair == [x \in {"application.sort.policy"} |-> "fair"]

\* the partition configurations of a reload: placement rules, and a queue
\* list that is empty or holds the root with some of leaf, parent, sub-leaf
\* and a new queue below parent
ReloadConfigs ==
    LET leafs == {<<>>} \cup
                 {<<QueueConfig(QLeaf, FALSE, acl, {}, LeafMax, EmptyMap, <<>>)>> :
                     acl \in {{"alice"}, {"bob"}}}
        sub == QueueConfig(QSubLeaf, FALSE, {}, {}, Nil, EmptyMap, <<>>)
        added == QueueConfig(QAdded, FALSE, {}, {}, Nil, EmptyMap, <<>>)
        parents == {<<>>} \cup
                   {<<QueueConfig(QParent, TRUE, {}, {"bob"}, ParentMax,
                                  EmptyMap, below)>> :
                       below \in {<<sub>>, <<sub, added>>}}
        roots == {<<>>} \cup
                 {<<QueueConfig(RootQueue, TRUE, {}, admin, Nil, props, l \o p)>> :
                     admin \in {{}, {"alice"}}, props \in {EmptyMap, SortFair},
                     l \in leafs, p \in parents}
    IN  [PlacementRules : {NoRules, <<"provided">>}, Queues : roots]

\* Update the partition details based on the configuration: the rules are
\* replaced first, then the root queue and the queues below it
updatePartitionDetails ==
    \E conf \in ReloadConfigs :
        IF Len(conf.Queues) = 0
        THEN /\ last' = [Result("updatePartitionDetails", NoID, Nil, FALSE, TRUE, {})
                            EXCEPT !.args = <<conf>>]
             /\ UNCHANGED <<pstate, rules, callers, totalPartitionResource, queues, nodes,
                            applications, allocations, reservedApps, inflight>>
        ELSE LET queueConf == conf.Queues[1]
                 root == SetQueueConfig(queues, RootQueue, queueConf)
                 r == updateQueues(root, queueConf.Queues, 1, RootQueue, {})
             IN  /\ rules' = conf.PlacementRules
                 /\ queues' = r.qs
                 /\ last' = [Result("updatePartitionDetails", NoID, Nil, FALSE,
                                    r.err, {})
                                EXCEPT !.args = <<conf>>]
                 /\ UNCHANGED <<pstate, callers, totalPartitionResource, nodes,
                                applications, allocations, reservedApps, inflight>>

(***************************************************************************)
(* The calls of a queue, one call a step.                                   *)
(***************************************************************************)
\* Remove a child from the list of children: a noop when it is not there
removeChildQueue(qs, q, name) ==
    [qs EXCEPT ![q].children = @ \ {ToLower(name)}]

\* the queue removed from the structure without a look at its resources
RemoveQueueAllocated(qs, q) ==
    IF qs[q].isManaged /\ qs[q].state = Active
    THEN [ok |-> FALSE, qs |-> qs]
    ELSE IF qs[q].children # {}
    THEN [ok |-> FALSE, qs |-> qs]
    ELSE [ok |-> TRUE, qs |-> removeChildQueue(qs, qs[q].Parent, q)]

\* Remove the queue from the structure: not a managed queue that is running,
\* and not a queue that has children or allocated resources
RemoveQueue(qs, q) ==
    IF qs[q].isManaged /\ qs[q].state = Active
    THEN [ok |-> FALSE, qs |-> qs]
    ELSE IF qs[q].children # {} \/ ~IsZero(qs[q].allocatedResource)
    THEN [ok |-> FALSE, qs |-> qs]
    ELSE [ok |-> TRUE, qs |-> removeChildQueue(qs, qs[q].Parent, q)]

\* the names of the queues created below a queue of the tree
ChildNames ==
    {"root.parent.dyn", MixedCaseName, "root.parent.dyn.sub", "root.leaf.dyn"}

\* a call of NewUnmanagedQueue, which adds the new queue to its parent with
\* addChildQueue
CallNewUnmanagedQueue ==
    \E name \in ChildNames, leaf \in BOOLEAN :
        LET parent == ParentName(name)
            r == NewUnmanagedQueue(queues, name, leaf, parent)
        IN  /\ getQueue(queues, parent) # NoQueue
            /\ getQueue(queues, ToLower(name)) = NoQueue
            /\ queues' = r.qs
            /\ last' = [Result("NewUnmanagedQueue", name, Nil, leaf, r.err, {})
                           EXCEPT !.args = <<parent>>]
            /\ UNCHANGED <<pstate, rules, callers, totalPartitionResource, nodes,
                           applications, allocations, reservedApps, inflight>>

\* a call of removeChildQueue on a queue of the tree, with the name of a child
\* or another name
CallRemoveChildQueue ==
    \E q \in DOMAIN queues, name \in DOMAIN queues \cup ChildNames :
        /\ getQueue(queues, q) # NoQueue
        /\ name \in queues[q].children =>
               /\ queues[name].children = {}
               /\ IsZero(queues[name].allocatedResource)
        /\ queues' = removeChildQueue(queues, q, name)
        /\ last' = [Result("removeChildQueue", name, Nil, FALSE, FALSE, {})
                       EXCEPT !.args = <<q>>]
        /\ UNCHANGED <<pstate, rules, callers, totalPartitionResource, nodes,
                       applications, allocations, reservedApps, inflight>>

\* a call of RemoveQueue on a queue of the tree below the root
CallRemoveQueue ==
    \E q \in DOMAIN queues \ {RootQueue} :
        LET r == RemoveQueue(queues, q)
        IN  /\ getQueue(queues, q) # NoQueue
            /\ queues' = r.qs
            /\ last' = Result("RemoveQueue", q, Nil, r.ok, FALSE, {})
            /\ UNCHANGED <<pstate, rules, callers, totalPartitionResource, nodes,
                           applications, allocations, reservedApps, inflight>>

\* the changes of the resources of a leaf queue that is in the tree
CallAllocatedResource ==
    /\ CallIncAllocatedResource \/ CallDecAllocatedResource
    /\ getQueue(queues, last'.id) # NoQueue

(***************************************************************************)
(* The queue locks: the queue calls step by step, one step per Lock() and   *)
(* one per deferred Unlock().                                               *)
(***************************************************************************)
\* the lock of the queue is held by a goroutine
Locked(q) ==
    \E t \in Threads :
        \E i \in 1..Len(callers[t].locks) : callers[t].locks[i] = q

\* the lock a goroutine took last and still holds: the call it is in
Top(t) == callers[t].locks[Len(callers[t].locks)]

QueueCalls ==
    {"IncAllocatedResource", "decAllocatedResource", "RemoveQueue",
     "MarkQueueForRemoval"}

\* newAllocation of IncAllocatedResource: the sum it computes when it has the
\* lock of the queue, and stores when the parent accepted the change
snapshot(op, q, alloc) ==
    IF op = "IncAllocatedResource"
    THEN Add(queues[q].allocatedResource, alloc)
    ELSE Nil

\* qi.Lock() at the entry of a queue call made from outside the queues; the
\* resources are changed on leaf queues, root is never removed.  Marking
\* fires the Remove event of a managed queue under its lock.
LockQueue ==
    \E t \in Threads, q \in DOMAIN queues, op \in QueueCalls,
       alloc \in {Res(1, 0), Res(1, 1)} :
        LET counted == op \in {"IncAllocatedResource", "decAllocatedResource"}
            marked == op = "MarkQueueForRemoval" /\ queues[q].isManaged
        IN  /\ callers[t] = Idle
            /\ getQueue(queues, q) # NoQueue
            /\ ~Locked(q)
            /\ counted => queues[q].isLeaf
            /\ op = "IncAllocatedResource" =>
                  WithinBound([queues |->
                      IncAllocatedResource(queues, q, alloc, FALSE).qs])
            /\ op = "RemoveQueue" => q # RootQueue
            /\ callers' = [callers EXCEPT ![t] =
                              [op |-> op, alloc |-> IF counted THEN alloc ELSE Nil,
                               phase |-> "locked", locks |-> <<q>>,
                               newAllocation |-> <<snapshot(op, q, alloc)>>,
                               done |-> {}]]
            /\ queues' = IF marked
                         THEN [queues EXCEPT ![q] = HandleQueueEvent(@, Remove)]
                         ELSE queues
            /\ last' = Result(op, q, Nil, FALSE, FALSE, {})
            /\ UNCHANGED <<pstate, rules, totalPartitionResource, nodes,
                           applications, allocations, reservedApps, inflight>>

\* IncAllocatedResource and decAllocatedResource when the call of the parent
\* does not wait for the lock of the parent
AllocatedResourceStepUnlocked ==
    \E t \in Threads :
        LET c == callers[t]
            q == Top(t)
            refused == IF c.op = "IncAllocatedResource"
                       THEN /\ queues[q].maxResource # Nil
                            /\ ~FitIn(queues[q].maxResource,
                                      c.newAllocation[Len(c.newAllocation)])
                       ELSE ~FitIn(queues[q].allocatedResource, c.alloc)
            parent == queues[q].Parent
        IN  /\ c.op \in {"IncAllocatedResource", "decAllocatedResource"}
            /\ c.phase = "locked"
            /\ IF refused
               THEN callers' = [callers EXCEPT ![t].phase = "failed"]
               ELSE IF parent = NoQueue
               THEN callers' = [callers EXCEPT ![t].phase = "passed"]
               ELSE /\ callers' = [callers EXCEPT
                                      ![t].locks = Append(@, parent),
                                      ![t].newAllocation =
                                          Append(@, snapshot(c.op, parent, c.alloc))]
            /\ last' = Result(c.op, q, c.alloc, FALSE, refused, {})
            /\ UNCHANGED <<pstate, rules, totalPartitionResource, queues, nodes,
                           applications, allocations, reservedApps, inflight>>

\* IncAllocatedResource and decAllocatedResource under the lock of the queue:
\* the check of this queue, then the call of the parent, which takes the lock
\* of the parent
AllocatedResourceStep ==
    \E t \in Threads :
        LET c == callers[t]
            q == Top(t)
            refused == IF c.op = "IncAllocatedResource"
                       THEN /\ queues[q].maxResource # Nil
                            /\ ~FitIn(queues[q].maxResource,
                                      c.newAllocation[Len(c.newAllocation)])
                       ELSE ~FitIn(queues[q].allocatedResource, c.alloc)
            parent == queues[q].Parent
        IN  /\ c.op \in {"IncAllocatedResource", "decAllocatedResource"}
            /\ c.phase = "locked"
            /\ IF refused
               THEN callers' = [callers EXCEPT ![t].phase = "failed"]
               ELSE IF parent = NoQueue
               THEN callers' = [callers EXCEPT ![t].phase = "passed"]
               ELSE /\ ~Locked(parent)
                    /\ callers' = [callers EXCEPT
                                      ![t].locks = Append(@, parent),
                                      ![t].newAllocation =
                                          Append(@, snapshot(c.op, parent, c.alloc))]
            /\ last' = Result(c.op, q, c.alloc, FALSE, refused, {})
            /\ UNCHANGED <<pstate, rules, totalPartitionResource, queues, nodes,
                           applications, allocations, reservedApps, inflight>>

\* MarkQueueForRemoval under the lock of a managed queue: the call of a child,
\* which takes the lock of the child and fires its Remove event
MarkQueueForRemovalStep ==
    \E t \in Threads :
        LET c == callers[t]
            q == Top(t)
        IN  /\ c.op = "MarkQueueForRemoval"
            /\ c.locks # <<>>
            /\ queues[q].isManaged
            /\ \E child \in queues[q].children \ c.done :
                  /\ ~Locked(child)
                  /\ callers' = [callers EXCEPT
                                    ![t].locks = Append(@, child),
                                    ![t].newAllocation = Append(@, Nil)]
                  /\ queues' = IF queues[child].isManaged
                               THEN [queues EXCEPT
                                        ![child] = HandleQueueEvent(@, Remove)]
                               ELSE queues
                  /\ last' = Result(c.op, child, Nil, FALSE, FALSE, {})
            /\ UNCHANGED <<pstate, rules, totalPartitionResource, nodes,
                           applications, allocations, reservedApps, inflight>>

\* RemoveQueue under the lock of the queue: the checks, then removeChildQueue
\* of the parent, which takes the lock of the parent and deletes the child
RemoveQueueStep ==
    \E t \in Threads :
        LET c == callers[t]
            q == Top(t)
            refused == \/ queues[q].isManaged /\ queues[q].state = Active
                       \/ queues[q].children # {}
                       \/ ~IsZero(queues[q].allocatedResource)
            parent == queues[q].Parent
        IN  /\ c.op = "RemoveQueue"
            /\ c.phase = "locked"
            /\ IF refused
               THEN /\ callers' = [callers EXCEPT ![t].phase = "failed"]
                    /\ UNCHANGED queues
               ELSE /\ ~Locked(parent)
                    /\ callers' = [callers EXCEPT ![t].locks = Append(@, parent),
                                                  ![t].newAllocation = Append(@, Nil),
                                                  ![t].phase = "passed"]
                    /\ queues' = [queues EXCEPT ![parent].children = @ \ {q}]
            /\ last' = Result(c.op, q, Nil, ~refused, FALSE, {})
            /\ UNCHANGED <<pstate, rules, totalPartitionResource, nodes,
                           applications, allocations, reservedApps, inflight>>

\* the deferred Unlock() of the call a goroutine is in, at its return: a call
\* that changes the resources updates its queue before it, when the parent
\* accepted the change
Unlock ==
    \E t \in Threads :
        LET c == callers[t]
            q == Top(t)
            counted == c.op \in {"IncAllocatedResource", "decAllocatedResource"}
            returns == IF c.op = "MarkQueueForRemoval"
                       THEN ~queues[q].isManaged \/ queues[q].children \subseteq c.done
                       ELSE c.phase \in {"passed", "failed"}
            rest == SubSeq(c.locks, 1, Len(c.locks) - 1)
        IN  /\ c.locks # <<>>
            /\ returns
            /\ callers' = [callers EXCEPT ![t] =
                              IF rest = <<>> THEN Idle
                              ELSE [c EXCEPT !.locks = rest,
                                             !.newAllocation =
                                                 SubSeq(@, 1, Len(@) - 1),
                                             !.done = @ \cup {q}]]
            /\ queues' = IF counted /\ c.phase = "passed"
                         THEN [queues EXCEPT ![q].allocatedResource =
                                  IF c.op = "IncAllocatedResource"
                                  THEN c.newAllocation[Len(c.newAllocation)]
                                  ELSE Sub(@, c.alloc)]
                         ELSE queues
            /\ last' = Result("Unlock", q, Nil, FALSE, FALSE, {})
            /\ UNCHANGED <<pstate, rules, totalPartitionResource, nodes,
                           applications, allocations, reservedApps, inflight>>

\* the queue names a submitter sends when placement rules are set
PlacedNames == QueuePaths \cup {"root.parent.dyn.sub", "root.leaf.dyn", InvalidName}

\* placementManager.PlaceApplication with the rule "provided": the queue is
\* the name the submitter sent, to be created when it does not exist
PlaceApplication(rs, queueName) ==
    IF Len(rs) > 0 /\ rs[1] = "provided" THEN queueName ELSE NoQueue

\* Add a new application to the partition when placement rules are set: the
\* queue the rules place it in is created when it does not exist
AddApplicationPlaced ==
    \E appID \in AppIDs, name \in PlacedNames :
    \E user \in Submitters(appID) :
        LET app == NewApplication(appID)
            queueName == PlaceApplication(rules, name)
            found == getQueue(queues, queueName)
            r == IF queueName # NoQueue /\ found = NoQueue
                 THEN createQueue(queues, queueName, user)
                 ELSE [err |-> FALSE, qs |-> queues, queue |-> found]
            early == \/ isDraining \/ isStopped
                     \/ appID \in DOMAIN applications
                     \/ queueName = NoQueue
            rejected == \/ early
                        \/ r.err
                        \/ ~r.qs[r.queue].isLeaf
                        \/ ~CheckSubmitAccess(r.qs, r.queue, user)
        IN  /\ rules # NoRules
            /\ UNCHANGED <<pstate, rules, callers, totalPartitionResource, nodes,
                           allocations, reservedApps, inflight>>
            /\ last' = [Result("AddApplication", appID, Nil, FALSE, rejected, {})
                           EXCEPT !.args = <<name, user>>]
            /\ IF early THEN UNCHANGED <<queues, applications>>
               ELSE IF rejected
               THEN /\ queues' = r.qs
                    /\ UNCHANGED applications
               ELSE /\ queues' = QueueAddApplication(r.qs, r.queue, appID)
                    /\ applications' =
                           MapPut(applications, appID, [app EXCEPT !.queue = r.queue])

\* the reload of the configuration that sets the placement rules and leaves
\* the queues as they are
updatePartitionDetailsRules ==
    /\ updatePartitionDetails
    /\ rules' # rules
    /\ queues' = queues

\* the entry of IncAllocatedResource and decAllocatedResource alone
LockQueueCounted ==
    /\ LockQueue
    /\ last'.op \in {"IncAllocatedResource", "decAllocatedResource"}

\* the reload of the configuration that adds the leaf root.parent.added and
\* changes nothing else
updatePartitionDetailsAdded ==
    /\ QAdded \notin DOMAIN queues
    /\ updatePartitionDetails
    /\ rules' = rules
    /\ DOMAIN queues' = DOMAIN queues \cup {QAdded}
    /\ \A q \in DOMAIN queues \ {QParent} : queues'[q] = queues[q]

(***************************************************************************)
(* The partition lock: the calls that take pc.Lock(), in two steps, the     *)
(* Lock() and the body up to the deferred Unlock().                         *)
(***************************************************************************)
PartitionLock == "partition"

\* the goroutine of the scheduling loop, which calls tryAllocate and with
\* its result allocate; the other goroutines serve the resource manager
Driver == "t1"

\* the goroutine holds the write lock of the partition
Holds(t) == callers[t].locks = <<PartitionLock>>

PartitionCalls ==
    {"allocate", "AddNode", "removeNode", "AddApplication", "removeApplication"}

\* pc.Lock() taken whether or not the lock is held
LockPartitionAny ==
    \E t \in Threads, op \in PartitionCalls :
        /\ callers[t] = Idle
        /\ (op = "allocate") <=> (t = Driver)
        /\ op = "allocate" => inflight # NoAlloc
        /\ callers' = [callers EXCEPT ![t] =
                          [Idle EXCEPT !.op = op, !.locks = <<PartitionLock>>]]
        /\ UNCHANGED <<pstate, rules, totalPartitionResource, queues, nodes,
                       applications, allocations, reservedApps, inflight, last>>

\* pc.Lock() at the entry of allocate, called by the driver with the result of
\* its descent, and of the calls of the resource manager: the goroutine waits
\* until no goroutine holds the lock
LockPartition ==
    \E t \in Threads, op \in PartitionCalls :
        /\ callers[t] = Idle
        /\ \A u \in Threads : ~Holds(u)
        /\ (op = "allocate") <=> (t = Driver)
        /\ op = "allocate" => inflight # NoAlloc
        /\ callers' = [callers EXCEPT ![t] =
                          [Idle EXCEPT !.op = op, !.locks = <<PartitionLock>>]]
        /\ UNCHANGED <<pstate, rules, totalPartitionResource, queues, nodes,
                       applications, allocations, reservedApps, inflight, last>>

\* the body of a call by the goroutines that took the lock for it, up to the
\* deferred pc.Unlock()
UnderLock(op, Body) ==
    /\ \E t \in Threads : Holds(t) /\ callers[t].op = op
    /\ Body
    /\ callers' = [t \in Threads |->
                      IF Holds(t) /\ callers[t].op = op THEN Idle ELSE callers[t]]

(***************************************************************************)
(* The specifications.                                                     *)
(***************************************************************************)
\* the allocation cycle of an active partition: nodes with their recovered
\* allocations, applications with their asks, the descent and the commit
Next ==
    \/ AddNode
    \/ AddApplication
    \/ AddAllocationAsk
    \/ tryAllocate
    \/ allocate

Spec == Init /\ [][Next]_vars

\* the registration of nodes and applications while the partition changes state
NextRegister ==
    \/ handlePartitionEvent
    \/ AddNode
    \/ removeNode
    \/ AddApplication
    \/ removeApplication

SpecRegister == Init /\ [][NextRegister]_vars

\* the release of the allocations the nodes reported
NextRelease ==
    \/ AddNode
    \/ removeNode
    \/ AddApplication
    \/ removeAllocation

SpecRelease == Init /\ [][NextRelease]_vars

\* the queue tree under a config reload and the creation of queues, with the
\* applications that are submitted to it
NextTree ==
    \/ CallMarkQueueForRemoval
    \/ CallCreateQueue
    \/ AddApplication
    \/ removeApplication

SpecTree == Init /\ [][NextTree]_vars

\* the queue tree under config reloads, between the removal marks and the
\* queues created on the fly
NextReload ==
    \/ updatePartitionDetails
    \/ CallMarkQueueForRemoval
    \/ CallCreateQueue

SpecReload == Init /\ [][NextReload]_vars

\* the queue calls of two goroutines, lock by lock
NextLocks ==
    \/ LockQueue
    \/ AllocatedResourceStep
    \/ MarkQueueForRemovalStep
    \/ RemoveQueueStep
    \/ Unlock

SpecLocks == Init /\ [][NextLocks]_vars

\* the resource calls of two goroutines on the leaf queues, lock by lock, with
\* two leaf queues below root.parent
NextCount ==
    \/ updatePartitionDetailsAdded
    \/ LockQueueCounted
    \/ AllocatedResourceStep
    \/ Unlock

SpecCount == Init /\ [][NextCount]_vars

\* the applications of a partition with placement rules, which a reload sets
\* and removes
NextPlace ==
    \/ updatePartitionDetailsRules
    \/ CallMarkQueueForRemoval
    \/ AddApplication
    \/ AddApplicationPlaced
    \/ removeApplication

SpecPlace == Init /\ [][NextPlace]_vars

\* the calls that change the tree of the queues, one call a step
NextChild ==
    \/ CallNewUnmanagedQueue
    \/ CallRemoveChildQueue
    \/ CallRemoveQueue
    \/ CallMarkQueueForRemoval

SpecChild == Init /\ [][NextChild]_vars

\* the removal of queues that are marked for removal, created by a placement
\* rule, or in use
NextRemove ==
    \/ CallNewUnmanagedQueue
    \/ CallRemoveQueue
    \/ CallMarkQueueForRemoval
    \/ CallAllocatedResource

SpecRemove == Init /\ [][NextRemove]_vars

\* the events of the partition and of the queues
NextEvents ==
    \/ handlePartitionEvent
    \/ CallMarkQueueForRemoval
    \/ CallNewUnmanagedQueue
    \/ AddApplication

SpecEvents == Init /\ [][NextEvents]_vars

\* the allocation cycle of the driver beside the calls of the resource manager,
\* with the partition lock taken and released
NextDriver ==
    \/ LockPartition
    \/ UnderLock("AddNode", \E nodeID \in NodeIDs : AddNodeWithLocked(nodeID, TRUE, <<>>))
    \/ UnderLock("removeNode", removeNodeLocked)
    \/ UnderLock("AddApplication", AddApplicationLocked /\ ~last'.err)
    \/ UnderLock("removeApplication", removeApplicationLocked)
    \/ AddAllocationAsk
    \/ tryAllocate
    \/ UnderLock("allocate", allocateLocked)

SpecDriver == Init /\ [][NextDriver]_vars

\* the scheduling loop at work: nodes register, every application is
\* submitted and asks once, and the driver keeps running cycles, each descent
\* followed by its commit
NextLive ==
    \/ AddNodeEmpty
    \/ AddApplicationAccepted
    \/ AddAllocationAskOnce
    \/ tryAllocate
    \/ allocate

SpecLive ==
    Init /\ [][NextLive]_vars /\ WF_vars(tryAllocate) /\ WF_vars(allocate)

\* the reservations of the applications of one leaf queue under every call
\* that makes or releases them, beside the allocation cycle
NextReserve ==
    \/ AddNodeEmpty
    \/ removeNode
    \/ AddApplicationToLeaf
    \/ removeApplication
    \/ AddAllocationAskOnce
    \/ removeAllocationAsk
    \/ tryAllocate
    \/ tryReservedAllocate
    \/ allocate

SpecReserve == Init /\ [][NextReserve]_vars

\* the allocation cycle with its reservations, while nodes come and go and the
\* partition changes state
NextStop ==
    \/ handlePartitionEvent
    \/ AddNodeEmpty
    \/ removeNode
    \/ AddApplicationAccepted
    \/ AddAllocationAsk
    \/ tryAllocate
    \/ tryReservedAllocate
    \/ allocate

SpecStop == Init /\ [][NextStop]_vars

\* the allocation cycle with its reservations, while nodes come and go and are
\* drained and restored
NextCycle ==
    \/ AddNodeEmpty
    \/ removeNode
    \/ SetSchedulable
    \/ AddApplicationAccepted
    \/ AddAllocationAsk
    \/ tryAllocate
    \/ tryReservedAllocate
    \/ allocate

SpecCycle == Init /\ [][NextCycle]_vars

\* the allocation cycle while nodes are recovered with the allocations they
\* report
NextRecover ==
    \/ AddNodeRecovered
    \/ removeNode
    \/ AddApplicationAccepted
    \/ AddAllocationAsk
    \/ tryAllocate
    \/ allocate

SpecRecover == Init /\ [][NextRecover]_vars

\* applications that come and go while the others are scheduled and reserve
NextApp ==
    \/ AddNodeEmpty
    \/ AddApplicationAccepted
    \/ removeApplication
    \/ AddAllocationAsk
    \/ tryAllocate
    \/ allocate

SpecApp == Init /\ [][NextApp]_vars

\* the accounting of the queues under calls on the leaf queues
NextQueue ==
    \/ CallIncAllocatedResource
    \/ CallDecAllocatedResource

SpecQueue == Init /\ [][NextQueue]_vars

(***************************************************************************)
(* The properties.                                                         *)
(***************************************************************************)
\* the sum of the allocated resources over the nodes of the partition
NodeAllocated ==
    SumRes([n \in DOMAIN nodes |-> nodes[n].allocatedResource])

\* the sum of the allocated resources over the applications of the partition
AppAllocated ==
    SumRes([a \in DOMAIN applications |-> applications[a].allocatedResource])

\* the queues with res added to the allocatedResource of q and its ancestors
ChainPlus(qs, q, res) ==
    [a \in DOMAIN qs |->
        IF a \in Chain(qs, q)
        THEN [qs[a] EXCEPT !.allocatedResource = Add(@, res)]
        ELSE qs[a]]

\* the queues with res subtracted from the allocatedResource of q and its
\* ancestors
ChainMinus(qs, q, res) ==
    [a \in DOMAIN qs |->
        IF a \in Chain(qs, q)
        THEN [qs[a] EXCEPT !.allocatedResource = Sub(@, res)]
        ELSE qs[a]]

\* C1: at every quiescent point of the partition the sum of the allocated
\* resources over all nodes equals the allocatedResource of the root queue,
\* which equals the sum of the allocated resources over all applications.
C1_AllocatedSumsAgree ==
    inflight = NoAlloc =>
        /\ NodeAllocated = queues[RootQueue].allocatedResource
        /\ queues[RootQueue].allocatedResource = AppAllocated

\* C2: every allocation in the allocations map of the partition has its
\* application in the applications map and its node in the nodes map, and both
\* the application and the node list the allocation.
C2_AllocationsLinked ==
    \A u \in DOMAIN allocations :
        LET alloc == allocations[u]
        IN  /\ alloc.ApplicationID \in DOMAIN applications
            /\ alloc.NodeID \in DOMAIN nodes
            /\ u \in DOMAIN applications[alloc.ApplicationID].allocations
            /\ u \in DOMAIN nodes[alloc.NodeID].allocations

\* C3, as claimed: for every queue whose max resource is set the
\* allocatedResource fits in the max, after every committed mutation of the
\* partition, the recovered node reported allocations included.
C3_FitInMax ==
    \A q \in DOMAIN queues :
        queues[q].maxResource # Nil =>
            FitIn(queues[q].maxResource, queues[q].allocatedResource)

\* C3, as the code has it: a scheduled allocation (the descent, not node
\* reported) leaves the queue of the application and every ancestor of it that
\* has a max set within that max; an allocation a node reports is not checked
\* against any max.
C3_ScheduledFitInMax ==
    [][(inflight = NoAlloc /\ inflight'.Result = Allocated) =>
          \A q \in Chain(queues', applications'[inflight'.ApplicationID].queue) :
              queues'[q].maxResource # Nil =>
                  FitIn(queues'[q].maxResource, queues'[q].allocatedResource)]_vars

\* a scheduled allocation has taken the leaf queue up to its max
C3_ScheduledAtMax ==
    /\ inflight.Result = Allocated
    /\ inflight.ApplicationID \in DOMAIN applications
    /\ applications[inflight.ApplicationID].queue = QLeaf
    /\ queues[QLeaf].allocatedResource = LeafMax

\* C4: the allocatedResource of every internal queue equals the pointwise sum
\* of the allocatedResource of its children, after any sequence of successful
\* and failed IncAllocatedResource and decAllocatedResource calls on the leaf
\* queues.
C4_InternalIsSumOfChildren ==
    \A q \in DOMAIN queues :
        ~queues[q].isLeaf =>
            queues[q].allocatedResource =
                SumRes([c \in queues[q].children |-> queues[c].allocatedResource])

\* a call has failed while both leaf queues hold allocations
C4_FailedCallOnUsedQueues ==
    /\ last.op \in {"IncAllocatedResource", "decAllocatedResource"}
    /\ last.err
    /\ ~IsZero(queues[QLeaf].allocatedResource)
    /\ ~IsZero(queues[QSubLeaf].allocatedResource)

\* the sum of the capacities of the nodes in the nodes map
NodeCapacity == SumRes([n \in DOMAIN nodes |-> nodes[n].capacity])

\* C5: after any sequence of AddNode and removeNode calls the max resource of
\* the root queue equals the totalPartitionResource of the partition, which
\* equals the pointwise sum of the capacities of the nodes in the nodes map
\* (a total that is not set counts as zero).
C5_RootMaxIsTotalCapacity ==
    /\ queues[RootQueue].maxResource = totalPartitionResource
    /\ Val(totalPartitionResource) = NodeCapacity

\* a node has been removed and another node is left in the partition
C5_NodeRemovedOneLeft ==
    /\ last.op = "removeNode"
    /\ last.flag
    /\ DOMAIN nodes # {}

\* C6: IncAllocatedResource(res, FALSE) on a queue is all or nothing along the
\* chain to the root: if the new value does not fit in the max of the queue
\* or of an ancestor an error is returned and no allocatedResource changes,
\* otherwise every queue on the chain increases by exactly res.
C6_IncAllOrNothing ==
    [][(last'.op = "IncAllocatedResource" /\ ~last'.flag) =>
          LET q == last'.id
              res == last'.res
              over == \E a \in Chain(queues, q) :
                          /\ queues[a].maxResource # Nil
                          /\ ~FitIn(queues[a].maxResource,
                                    Add(queues[a].allocatedResource, res))
          IN  /\ last'.err <=> over
              /\ over => UNCHANGED queues
              /\ ~over => queues' = ChainPlus(queues, q, res)]_vars

\* an increment of the sub-leaf, which has no max, has failed: an ancestor
\* has refused it
C6_RefusedByAncestor ==
    /\ last.op = "IncAllocatedResource"
    /\ ~last.flag
    /\ last.err
    /\ last.id = QSubLeaf

\* C7: decAllocatedResource(res) on a queue is all or nothing along the chain
\* to the root: if res does not fit in the allocatedResource of the queue or
\* of an ancestor an error is returned and no allocatedResource changes,
\* otherwise every queue on the chain decreases by exactly res; no component
\* becomes negative.
C7_DecAllOrNothing ==
    [][last'.op = "decAllocatedResource" =>
          LET q == last'.id
              res == last'.res
              short == \E a \in Chain(queues, q) :
                           res # Nil /\ ~FitIn(queues[a].allocatedResource, res)
          IN  /\ last'.err <=> short
              /\ short => UNCHANGED queues
              /\ ~short => queues' = ChainMinus(queues, q, res)
              /\ \A a \in DOMAIN queues, t \in Types :
                     queues'[a].allocatedResource[t] >= 0]_vars

\* a decrement of more than a queue holds has failed on a queue that holds
\* something
C7_RefusedDecrement ==
    /\ last.op = "decAllocatedResource"
    /\ last.err
    /\ ~IsZero(queues[last.id].allocatedResource)

\* C8: IncAllocatedResource(res, TRUE) never fails because of a max: it
\* returns no error and increases the allocatedResource of the queue and of
\* every ancestor by exactly res.
C8_NodeReportedNeverFails ==
    [][(last'.op = "IncAllocatedResource" /\ last'.flag) =>
          /\ ~last'.err
          /\ queues' = ChainPlus(queues, last'.id, last'.res)]_vars

\* a node reported increment has taken the leaf queue over its max
C8_NodeReportedOverMax ==
    /\ last.op = "IncAllocatedResource"
    /\ last.flag
    /\ last.id = QLeaf
    /\ ~FitIn(queues[QLeaf].maxResource, queues[QLeaf].allocatedResource)

\* C9: if AddNode returns an error while it replays the existing allocations
\* the partition is rolled back: the node is not in the nodes map, the root
\* max equals the total, and none of the replayed allocations remains in the
\* allocations map of the partition or in any application.
C9_ReplayRolledBack ==
    (last.op = "AddNode" /\ last.flag) =>
        /\ last.id \notin DOMAIN nodes
        /\ queues[RootQueue].maxResource = totalPartitionResource
        /\ \A a \in DOMAIN applications :
               last.ret \cap DOMAIN applications[a].allocations = {}
        /\ last.ret \cap DOMAIN allocations = {}

\* the application passes the validation of AddApplication: the queue is a
\* leaf of the tree the user may submit to
PassesValidation(args) ==
    LET queue == getQueue(queues, args[1])
    IN  /\ queue # NoQueue
        /\ queues[queue].isLeaf
        /\ CheckSubmitAccess(queues, queue, args[2])

\* C10: while the partition is Draining or Stopped every AddNode and every
\* AddApplication call returns an error and leaves the nodes, the
\* applications, the totalPartitionResource and the queue tree (the root max
\* included) unchanged; while it is Active a new node whose allocations
\* replay and a new application that passes the validation are accepted.
C10_DrainingStoppedReject ==
    [][/\ (/\ pstate \in {Draining, Stopped}
           /\ last'.op \in {"AddNode", "AddApplication"}) =>
              /\ last'.err
              /\ UNCHANGED <<nodes, applications, totalPartitionResource, queues>>
       /\ (/\ pstate = Active
           /\ last'.op = "AddNode"
           /\ last'.id \notin DOMAIN nodes
           /\ ~last'.flag) =>
              /\ ~last'.err
              /\ last'.id \in DOMAIN nodes'
       /\ (/\ pstate = Active
           /\ last'.op = "AddApplication"
           /\ last'.id \notin DOMAIN applications
           /\ PassesValidation(last'.args)) =>
              /\ ~last'.err
              /\ last'.id \in DOMAIN applications'
              /\ applications'[last'.id].queue = last'.args[1]]_vars

\* an application has been refused by a draining partition that has a node
C10_RefusedWhileDraining ==
    /\ pstate = Draining
    /\ last.op = "AddApplication"
    /\ last.err
    /\ DOMAIN nodes # {}

\* C11: AddNode with a node id that is in the nodes map already, and
\* AddApplication with an application id that is in the applications map
\* already, return an error and change nothing: the registered object stays
\* as it is, and the totalPartitionResource, the root max and the links
\* between the queues and the applications are unchanged.
C11_DuplicateRejected ==
    [][/\ (last'.op = "AddNode" /\ last'.id \in DOMAIN nodes) =>
              /\ last'.err
              /\ UNCHANGED <<nodes, applications, totalPartitionResource, queues,
                             allocations, reservedApps>>
       /\ (last'.op = "AddApplication" /\ last'.id \in DOMAIN applications) =>
              /\ last'.err
              /\ UNCHANGED <<nodes, applications, totalPartitionResource, queues,
                             allocations, reservedApps>>]_vars

\* an active partition has refused a node with the id of a registered node
\* that holds allocations
C11_DuplicateNodeRefused ==
    /\ pstate = Active
    /\ last.op = "AddNode"
    /\ last.err
    /\ last.id \in DOMAIN nodes
    /\ DOMAIN nodes[last.id].allocations # {}

\* C12: a queue that is Draining accepts no new applications: AddApplication
\* that targets a Draining leaf queue returns an error (and so the
\* application is not added to the partition or linked to the queue).
C12_DrainingQueueRejects ==
    (/\ last.op = "AddApplication"
     /\ last.args[1] \in DOMAIN queues
     /\ queues[last.args[1]].isLeaf
     /\ queues[last.args[1]].state = Draining) =>
        last.err

\* C13: once the partition is Stopped every tryAllocate and
\* tryReservedAllocate cycle short-circuits: a cycle that starts in a Stopped
\* partition returns nothing to install, even when the root queue has
\* strictly positive pending resource.
C13_StoppedShortCircuits ==
    [][(pstate = Stopped /\ inflight = NoAlloc) => inflight' = NoAlloc]_vars

\* C16: allocate installs an allocation into the allocations map only if the
\* application of the allocation and the node the allocation is placed on
\* (its NodeID) are both registered in the partition when it commits, also
\* for a reservation promoted onto a node that is not the reserved node.
C16_CommitChecksAppAndNode ==
    [][(inflight # NoAlloc /\ inflight' = NoAlloc /\ allocations' # allocations) =>
          /\ inflight.ApplicationID \in DOMAIN applications
          /\ inflight.NodeID \in DOMAIN nodes]_vars

\* the user is on the submit ACL or the admin ACL of the queue or of one of its
\* ancestors
SubmitAllowed(q, user) ==
    \E a \in Chain(queues, q) :
        user \in queues[a].submitACL \cup queues[a].adminACL

\* C14: without placement rules AddApplication succeeds exactly when the
\* partition is neither Draining nor Stopped, the application ID is not yet
\* registered and the queue name resolves to an existing leaf queue the user
\* may submit to; on success the application is registered and linked to
\* exactly that queue, and no queue is created.
C14_AddApplicationAcceptance ==
    [][last'.op = "AddApplication" =>
          LET id == last'.id
              q == last'.args[1]
              user == last'.args[2]
              valid == /\ pstate \notin {Draining, Stopped}
                       /\ id \notin DOMAIN applications
                       /\ q \in DOMAIN queues
                       /\ queues[q].isLeaf
                       /\ SubmitAllowed(q, user)
          IN  /\ ~last'.err <=> valid
              /\ ~last'.err =>
                     /\ DOMAIN applications' = DOMAIN applications \cup {id}
                     /\ applications'[id].queue = q
                     /\ {x \in DOMAIN queues' : id \in queues'[x].applications} = {q}
                     /\ DOMAIN queues' = DOMAIN queues]_vars

C14_AcceptedThroughParentACL ==
    /\ last.op = "AddApplication"
    /\ ~last.err
    /\ last.args = <<QSubLeaf, "bob">>
    /\ last.id \in DOMAIN applications
    /\ pstate = Active

\* C15: createQueue only adds queues below an existing queue that is no leaf
\* and that the user may submit to: when the lowest existing ancestor of the
\* name is a leaf or denies the access the call fails, and a failed call
\* creates no queue; after a successful call the queue of the name is an
\* unmanaged leaf, every other new queue is an unmanaged queue that is no
\* leaf, all new queues hang below that ancestor, and every queue that existed
\* is as it was but for the new child it is the parent of.
C15_CreateQueueBelowParent ==
    [][last'.op = "createQueue" =>
          LET name == last'.id
              user == last'.args[1]
              legal == HasRootPrefix(name) /\ ContainsDot(name)
              lowest == lowestExisting(queues, name).queue
              created == DOMAIN queues' \ DOMAIN queues
          IN  /\ last'.err => queues' = queues
              /\ (legal /\ (queues[lowest].isLeaf \/ ~SubmitAllowed(lowest, user)))
                     => last'.err
              /\ ~last'.err =>
                     /\ ~queues[lowest].isLeaf
                     /\ SubmitAllowed(lowest, user)
                     /\ name \in created
                     /\ queues'[name].isLeaf
                     /\ \A c \in created :
                            /\ ~queues'[c].isManaged
                            /\ c # name => ~queues'[c].isLeaf
                            /\ c \in queues'[queues'[c].Parent].children
                            /\ Chain(queues', c) \ created = Chain(queues, lowest)
                     /\ \A q \in DOMAIN queues :
                            /\ q \in DOMAIN queues'
                            /\ queues'[q] =
                                   [queues[q] EXCEPT !.children =
                                       @ \cup {c \in created : queues'[c].Parent = q}]]_vars

C15_CreatedTwoLevels ==
    /\ last.op = "createQueue"
    /\ ~last.err
    /\ last.id = "root.parent.dyn.sub"
    /\ last.args = <<"bob">>
    /\ "root.parent.dyn" \in queues[QParent].children
    /\ queues["root.parent.dyn.sub"].Parent = "root.parent.dyn"

\* C17: no operation replaces an entry of the allocations map by a different
\* allocation, neither allocate nor the replay of addAllocation for a UUID
\* that is a key of the map; an allocation committed by allocate is stored
\* under a UUID that was no key of the map, which grows by exactly one entry.
C17_NoEntryReplaced ==
    [][/\ \A u \in DOMAIN allocations \cap DOMAIN allocations' :
              allocations'[u] = allocations[u]
       /\ (last'.op = "allocate" /\ last'.flag /\ inflight # NoAlloc) =>
              /\ last'.ret \cap DOMAIN allocations = {}
              /\ DOMAIN allocations' = DOMAIN allocations \cup last'.ret
              /\ Cardinality(DOMAIN allocations') =
                     Cardinality(DOMAIN allocations) + 1]_vars

\* the lists of up to two allocations a node may report, of any application
\* and under any UUIDs
ReportedAllocations(nodeID) ==
    LET one == {Reported(u, a, nodeID, AskRes(a)) :
                   u \in UUIDs, a \in AppIDs}
    IN  {<<>>} \cup {<<x>> : x \in one} \cup {<<x, y>> : x \in one, y \in one}

\* C18: in every reachable Active state, for every node that is not
\* registered and every list of allocations it reports, an AddNode that
\* succeeds followed at once by removeNode of the node brings the
\* totalPartitionResource and the root max back to their values before the
\* AddNode (a total that is not set counts as zero), and removeNode returns
\* the reported allocations, each as often as it was reported.
C18_AddRemoveNodeRoundTrip ==
    pstate = Active =>
        \A n \in NodeIDs \ DOMAIN nodes :
        \A allocs \in ReportedAllocations(n) :
            LET a == addNode(PC, n, TRUE, allocs)
                r == removeNodeInternal(a.pc, n)
            IN  ~a.err =>
                   /\ Val(r.pc.totalPartitionResource) = Val(totalPartitionResource)
                   /\ Val(r.pc.queues[RootQueue].maxResource)
                          = Val(queues[RootQueue].maxResource)
                   /\ r.released = {allocs[i] : i \in DOMAIN allocs}
                   /\ Cardinality(r.released) = Len(allocs)

\* C19 (a step that sets last to the result of an AddApplication is a step of
\* AddApplication): an AddApplication that succeeds adds the one application and leaves
\* the reservedApps, the nodes and the allocations as they are, and a
\* removeApplication of the same ID that follows it removes that one
\* application again, leaves the reservedApps, the nodes and the allocations
\* as they are and returns no allocation: the four maps are back in their
\* state before the AddApplication.
C19_AddRemoveApplicationRoundTrip ==
    [][/\ (last' # last /\ last'.op = "AddApplication" /\ ~last'.err) =>
              /\ last'.id \notin DOMAIN applications
              /\ MapDel(applications', last'.id) = applications
              /\ DOMAIN applications'[last'.id].allocations = {}
              /\ UNCHANGED <<reservedApps, nodes, allocations>>
       /\ (/\ last.op = "AddApplication" /\ ~last.err
           /\ last'.op = "removeApplication" /\ last'.id = last.id) =>
              /\ applications' = MapDel(applications, last.id)
              /\ UNCHANGED <<reservedApps, nodes, allocations>>
              /\ last'.ret = {}]_vars

C19_RemovedBesideReservation ==
    /\ last.op = "removeApplication"
    /\ last.flag
    /\ last.ret = {}
    /\ DOMAIN reservedApps # {}
    /\ DOMAIN allocations # {}

\* the reservation count of the application in the queue, 0 for no entry
QueueReserved(qs, q, appID) ==
    IF appID \in DOMAIN qs[q].reservedApps THEN qs[q].reservedApps[appID] ELSE 0

\* C20: in every reachable state, for every application and node of the
\* partition with the application not reserved on the node, reserve followed
\* by unReserve with the same arguments leaves the reservedApps map of the
\* partition (the absence of the key included), the reservation count of the
\* application in its queue and the reservations of the nodes as they were.
C20_ReserveUnReserveRoundTrip ==
    \A appID \in DOMAIN applications, nodeID \in DOMAIN nodes :
        nodeID \notin applications[appID].reservations =>
            LET reserved == reserve(PC, appID, nodeID)
                back == unReserve(reserved, appID, nodeID)
                q == applications[appID].queue
            IN  /\ back.reservedApps = reservedApps
                /\ back.queues[q].reservedApps = queues[q].reservedApps
                /\ QueueReserved(back.queues, q, appID) = QueueReserved(queues, q, appID)
                /\ \A n \in DOMAIN nodes :
                       back.nodes[n].reservations = nodes[n].reservations
                /\ (nodes[nodeID].reservations = {} =>
                       /\ appID \in DOMAIN reserved.reservedApps
                       /\ appID \in reserved.nodes[nodeID].reservations
                       /\ QueueReserved(reserved.queues, q, appID)
                              = QueueReserved(queues, q, appID) + 1)

C20_ReservedAndReleased ==
    /\ last.op = "allocate"
    /\ last.flag
    /\ \E u \in last.ret : /\ u \in DOMAIN allocations
                            /\ allocations[u].Result = AllocatedReserved
    /\ DOMAIN reservedApps = {}
    /\ \A n \in DOMAIN nodes : nodes[n].reservations = {}

\* C21: removeApplication of a registered application returns exactly the
\* allocations the application held; afterwards the application is not in the
\* applications map and has no reservedApps entry, no entry of the allocations
\* map is of that application and no node holds an allocation of it;
\* removeApplication of an unknown ID returns nothing and changes nothing.
C21_RemoveApplicationComplete ==
    [][last'.op = "removeApplication" =>
          LET id == last'.id
          IN  IF id \in DOMAIN applications
              THEN /\ last'.ret = DOMAIN applications[id].allocations
                   /\ id \notin DOMAIN applications'
                   /\ id \notin DOMAIN reservedApps'
                   /\ \A u \in DOMAIN allocations' :
                          allocations'[u].ApplicationID # id
                   /\ \A n \in DOMAIN nodes' :
                      \A u \in DOMAIN nodes'[n].allocations :
                          nodes'[n].allocations[u].ApplicationID # id
              ELSE /\ last'.ret = {}
                   /\ UNCHANGED <<pstate, totalPartitionResource, queues, nodes,
                                  applications, allocations, reservedApps,
                                  inflight>>]_vars

\* the allocations of the node that their application holds
Detached(n) ==
    {u \in DOMAIN nodes[n].allocations :
        LET a == nodes[n].allocations[u].ApplicationID
        IN  a \in DOMAIN applications /\ u \in DOMAIN applications[a].allocations}

\* the resources of the detached allocations of the applications of the queues
\* at and below queue q
DetachedBelow(n, q) ==
    SumRes([u \in {v \in Detached(n) :
                     q \in Chain(queues,
                                applications[nodes[n].allocations[v].ApplicationID].queue)}
               |-> nodes[n].allocations[u].AllocatedResource])

\* the count of the application in the reservedApps map, 0 for no entry
ReservedCount(reserved, a) == IF a \in DOMAIN reserved THEN reserved[a] ELSE 0

C23_FailedReloadChangesNothing ==
    [][(last'.op = "updatePartitionDetails" /\ last'.err)
          => (rules' = rules /\ queues' = queues)]_vars

\* C24: the queue locks are acquired from the root towards the leaf and never
\* upward: no goroutine acquires the lock of a queue while it holds the lock
\* of one of that queue's descendants.
C24_LocksTakenDownward ==
    \A t \in Threads :
        \A i, j \in 1..Len(callers[t].locks) :
            i < j => callers[t].locks[j] \notin Chain(queues, callers[t].locks[i])

C26_AccessWalksToTheRoot ==
    \A q \in DOMAIN queues, user \in Users :
        LET submit(x) == CheckSubmitAccess(queues, x, user)
            admin(x) == CheckAdminAccess(queues, x, user)
        IN  /\ submit(q) <=> \E a \in Chain(queues, q) :
                                user \in queues[a].submitACL \cup queues[a].adminACL
            /\ admin(q) <=> \E a \in Chain(queues, q) : user \in queues[a].adminACL
            /\ admin(q) => submit(q)
            /\ \A d \in DOMAIN queues :
                   q \in Chain(queues, d) =>
                       /\ submit(q) => submit(d)
                       /\ admin(q) => admin(d)

\* a reload created a queue below parent: bob administers it through the admin
\* ACL of parent, and submits to leaf without administering it
C26_AdminThroughParent ==
    /\ QAdded \in DOMAIN queues
    /\ "bob" \notin queues[QAdded].adminACL
    /\ CheckAdminAccess(queues, QAdded, "bob")
    /\ CheckSubmitAccess(queues, QLeaf, "bob")
    /\ ~CheckAdminAccess(queues, QLeaf, "bob")

\* C27: an ask that fits on a schedulable node and would push its leaf queue
\* or an ancestor over its maximum gets no allocation from the cycle: the
\* descent hands out a reservation and changes nothing, and the commit, with
\* the application and the node still registered, stores no allocation, leaves
\* the allocated resources of every queue as they are and records the
\* reservation in the application, the node and the queue, with reservedApps of
\* the application increased by one.
C27_BlockedAskIsReserved ==
    [][LET alloc == inflight
           a == alloc.ApplicationID
           n == alloc.NodeID
           q == applications[a].queue
       IN  /\ (inflight = NoAlloc /\ inflight' # NoAlloc
                   /\ inflight'.Result # Unreserved
                   /\ IncAllocatedResource(queues,
                          applications[inflight'.ApplicationID].queue,
                          inflight'.AllocatedResource, FALSE).err)
                  => /\ inflight'.Result = Reserved
                     /\ nodes[inflight'.NodeID].schedulable
                     /\ FitIn(NodeAvailable(nodes[inflight'.NodeID]),
                              inflight'.AllocatedResource)
                     /\ UNCHANGED <<queues, nodes, applications, allocations,
                                    reservedApps>>
           /\ (inflight # NoAlloc /\ inflight' = NoAlloc /\ alloc.Result = Reserved
                   /\ a \in DOMAIN applications /\ n \in DOMAIN nodes)
                  => /\ allocations' = allocations
                     /\ applications'[a].allocations = applications[a].allocations
                     /\ \A m \in DOMAIN nodes :
                            nodes'[m].allocations = nodes[m].allocations
                     /\ \A x \in DOMAIN queues :
                            queues'[x].allocatedResource = queues[x].allocatedResource
                     /\ n \in applications'[a].reservations
                     /\ a \in nodes'[n].reservations
                     /\ QueueReserved(queues', q, a) = QueueReserved(queues, q, a) + 1
                     /\ ReservedCount(reservedApps', a) =
                            ReservedCount(reservedApps, a) + 1]_vars

\* the second scenario at the bounds of the model: the leaf queue is full with
\* the allocation of one application on the node, and the other application of
\* the queue holds a reservation on the same node
C27_ReservedAtTheCap ==
    \E a \in DOMAIN applications, n \in DOMAIN nodes :
        /\ last.op = "allocate" /\ last.id = a
        /\ inflight = NoAlloc
        /\ n \in applications[a].reservations
        /\ a \in nodes[n].reservations
        /\ ReservedCount(reservedApps, a) = 1
        /\ applications[a].allocations = EmptyMap
        /\ DOMAIN nodes[n].allocations # {}
        /\ queues[applications[a].queue].allocatedResource =
               queues[applications[a].queue].maxResource

\* C28: the commit of a promoted reservation (AllocatedReserved with a
\* reserved node R and a node N), with the application and R registered,
\* always removes the reservation of the application on R from the application
\* and from R and decreases reservedApps by it, stores the allocation with node
\* N and without reserved node, and returns it: after the commit the
\* application is not reserved on R.
C28_PromotionReleasesReservation ==
    [][LET alloc == inflight
           a == alloc.ApplicationID
           R == alloc.ReservedNodeID
           N == alloc.NodeID
           held == IF R \in applications[a].reservations THEN 1 ELSE 0
       IN  (/\ inflight # NoAlloc /\ inflight' = NoAlloc
            /\ alloc.Result = AllocatedReserved /\ R # NoID
            /\ a \in DOMAIN applications /\ R \in DOMAIN nodes)
           => /\ R \notin applications'[a].reservations
              /\ a \notin nodes'[R].reservations
              /\ ReservedCount(reservedApps', a) = ReservedCount(reservedApps, a) - held
              /\ last'.op = "allocate" /\ last'.flag
              /\ \E uuid \in last'.ret :
                     /\ uuid \in DOMAIN allocations'
                     /\ allocations'[uuid].ApplicationID = a
                     /\ allocations'[uuid].NodeID = N
                     /\ allocations'[uuid].ReservedNodeID = NoID]_vars

\* a promoted allocation was committed: the reserved node is registered and
\* free of reservations, and the allocation is stored on the other node
C28_PromotedAndReleased ==
    /\ last.op = "allocate" /\ last.flag
    /\ last.args # <<>> /\ last.args[1] \in DOMAIN nodes
    /\ nodes[last.args[1]].reservations = {}
    /\ last.id \in DOMAIN applications
    /\ applications[last.id].reservations = {}
    /\ last.id \notin DOMAIN reservedApps
    /\ \E uuid \in last.ret :
           /\ uuid \in DOMAIN allocations
           /\ allocations[uuid].NodeID # last.args[1]
           /\ allocations[uuid].Result = AllocatedReserved

\* what the application requested in all: what it holds and what is pending
Requested(a) ==
    Add(applications[a].allocatedResource, AppPending(applications[a]))

\* the requests of the applications in the queue and in the queues below it
RequestedBelow(q) ==
    SumRes([a \in {x \in DOMAIN applications :
                     q \in Chain(queues, applications[x].queue)} |-> Requested(a)])

\* every application is registered and has asked: no demand is to come
AllAsked ==
    \A a \in AppIDs :
        a \in DOMAIN applications /\ applications[a].ask.res # NewResource

\* an Active partition with a schedulable node, free of reservations, whose
\* available resource fits all outstanding demand, and no queue whose max is
\* below what the applications in it requested
DemandFits ==
    /\ pstate = Active
    /\ \E n \in DOMAIN nodes :
           /\ nodes[n].schedulable
           /\ nodes[n].reservations = {}
           /\ FitIn(NodeAvailable(nodes[n]), RootPending)
    /\ \A q \in DOMAIN queues :
           queues[q].maxResource = Nil \/ FitIn(queues[q].maxResource, RequestedBelow(q))

\* nothing is pending, every queue holds what was requested in and below it,
\* and every node has available its capacity minus what was placed on it, all
\* nodes together the capacity minus what was requested
AllAllocated ==
    /\ IsZero(RootPending)
    /\ inflight = NoAlloc
    /\ \A q \in DOMAIN queues : queues[q].allocatedResource = RequestedBelow(q)
    /\ \A n \in DOMAIN nodes :
           NodeAvailable(nodes[n]) =
               Sub(nodes[n].capacity,
                   SumRes([u \in DOMAIN nodes[n].allocations |->
                              nodes[n].allocations[u].AllocatedResource]))
    /\ SumRes([n \in DOMAIN nodes |-> nodes[n].allocatedResource]) =
           SumRes([a \in DOMAIN applications |-> Requested(a)])

C30_ReservedAppsCountsReservations ==
    /\ \A a \in DOMAIN reservedApps : reservedApps[a] >= 1
    /\ \A a \in DOMAIN applications :
           /\ ReservedCount(reservedApps, a) = Cardinality(applications[a].reservations)
           /\ applications[a].reservations = {} => a \notin DOMAIN reservedApps

\* removeAllocationAsk released the reservation of an application while the
\* other application holds one, and the result of a descent waits
C30_AskRemovedBesideReservation ==
    /\ last.op = "removeAllocationAsk" /\ last.flag
    /\ last.id \in DOMAIN applications
    /\ last.id \notin DOMAIN reservedApps
    /\ \E b \in DOMAIN applications \ {last.id} : applications[b].reservations # {}
    /\ inflight # NoAlloc

\* C31: concurrent calls on the queue tree never deadlock: whenever a goroutine
\* is inside IncAllocatedResource, decAllocatedResource, RemoveQueue or
\* MarkQueueForRemoval, some goroutine inside a call can take its next step
\* (the lock it waits for is free, or it returns and unlocks), so that every
\* call completes.
C31_QueueCallsNeverBlock ==
    (\E t \in Threads : callers[t] # Idle)
        => ENABLED (\/ AllocatedResourceStep
                    \/ MarkQueueForRemovalStep
                    \/ RemoveQueueStep
                    \/ Unlock)

\* the change a goroutine inside a resource call makes to the queues it passes
\* through
Delta(t) ==
    IF callers[t].op = "IncAllocatedResource"
    THEN callers[t].alloc
    ELSE Sub(NewResource, callers[t].alloc)

\* the changes that have reached queue q and not yet the child they came
\* through: the call passed every check, has left q, and still holds the child
InFlightAt(q) ==
    SumRes([t \in {u \in Threads :
                     /\ callers[u].phase = "passed"
                     /\ q \in callers[u].done
                     /\ \E i \in 1..Len(callers[u].locks) :
                            callers[u].locks[i] \in queues[q].children} |->
               Delta(t)])

ChildrenSum(q) ==
    SumRes([ch \in queues[q].children |-> queues[ch].allocatedResource])

\* C32: increments and decrements of allocatedResource are linearizable.
\* Every change of a queue's allocatedResource is the change of one call that
\* passed every check, applied whole when that call leaves the queue; the
\* allocatedResource of a parent queue is the sum over its children plus the
\* changes still on their way down, so no change is lost or counted twice;
\* and no queue with a max is ever above it, also when two increments that
\* each fit alone meet in a shared ancestor.
C32_ResourceCallsLinearizable ==
    [][/\ \A q \in DOMAIN queues :
             queues'[q].allocatedResource # queues[q].allocatedResource =>
                 \E t \in Threads :
                     /\ callers[t].phase = "passed"
                     /\ Top(t) = q
                     /\ q \in callers'[t].done \/ callers'[t] = Idle
                     /\ queues'[q].allocatedResource =
                            Add(queues[q].allocatedResource, Delta(t))
       /\ \A q \in DOMAIN queues' :
             /\ ~queues'[q].isLeaf =>
                    queues'[q].allocatedResource =
                        Add(ChildrenSum(q), InFlightAt(q))'
             /\ queues'[q].maxResource # Nil =>
                    FitIn(queues'[q].maxResource, queues'[q].allocatedResource)]_vars

\* an increment is refused by root.parent although it fits there alone: the
\* increment of the other leaf went through root.parent first and has not
\* yet returned to its leaf
C32_RefusedInSharedParent ==
    \E t, u \in Threads :
        /\ callers[t].op = "IncAllocatedResource"
        /\ callers[t].phase = "failed"
        /\ Top(t) = QParent
        /\ FitIn(ParentMax, callers[t].alloc)
        /\ callers[u].op = "IncAllocatedResource"
        /\ callers[u].phase = "passed"
        /\ QParent \in callers[u].done
        /\ callers[u].locks # <<>>

\* C33: every allocation that allocate stores in the allocations map of the
\* partition has the result Allocated or AllocatedReserved and no reserved
\* node.  The commit of a Reserved result only adds a reservation and the
\* commit of an Unreserved result only removes one: both return nil, store
\* nothing and leave the allocations of every application and node and the
\* allocated resources of every queue as they are.
C33_StoredAllocationsAreAllocated ==
    [][(inflight # NoAlloc /\ inflight' = NoAlloc /\ last'.op = "allocate")
          => /\ \A uuid \in DOMAIN allocations' :
                    (\/ uuid \notin DOMAIN allocations
                     \/ allocations'[uuid] # allocations[uuid])
                        => /\ allocations'[uuid].Result \in
                                  {Allocated, AllocatedReserved}
                           /\ allocations'[uuid].ReservedNodeID = NoID
             /\ inflight.Result \in {Reserved, Unreserved}
                    => /\ allocations' = allocations
                       /\ ~last'.flag /\ last'.ret = {}
                       /\ DOMAIN applications' = DOMAIN applications
                       /\ DOMAIN nodes' = DOMAIN nodes
                       /\ \A a \in DOMAIN applications :
                              /\ applications'[a].allocations =
                                     applications[a].allocations
                              /\ IF inflight.Result = Reserved
                                 THEN applications[a].reservations
                                          \subseteq applications'[a].reservations
                                 ELSE applications'[a].reservations
                                          \subseteq applications[a].reservations
                       /\ \A n \in DOMAIN nodes :
                              nodes'[n].allocations = nodes[n].allocations
                       /\ \A q \in DOMAIN queues :
                              queues'[q].allocatedResource =
                                  queues[q].allocatedResource]_vars

\* a promoted reservation has just been stored without its reserved node,
\* beside a plain allocation of the other application
C33_StoredBesideAllocated ==
    /\ last.op = "allocate" /\ last.flag
    /\ inflight = NoAlloc
    /\ last.args # <<>> /\ last.args[1] # NoID
    /\ \E uuid \in last.ret :
           /\ uuid \in DOMAIN allocations
           /\ allocations[uuid].Result = AllocatedReserved
           /\ allocations[uuid].ReservedNodeID = NoID
    /\ \E v \in DOMAIN allocations :
           /\ allocations[v].Result = Allocated
           /\ allocations[v].ApplicationID # last.id

\* C34: an AddApplication call that returns an error leaves the partition
\* unchanged: the applications map and the queue tree (the set of queues, with
\* their leaf and managed flags and their children) are as before the call,
\* also when placement rules are set and the call is rejected while or after
\* it creates the queues of a path of more than one level.
C34_RejectedApplicationChangesNothing ==
    [][(last'.op = "AddApplication" /\ last'.err)
          => /\ applications' = applications
             /\ DOMAIN queues' = DOMAIN queues
             /\ \A q \in DOMAIN queues :
                    /\ queues'[q].isLeaf = queues[q].isLeaf
                    /\ queues'[q].isManaged = queues[q].isManaged
                    /\ queues'[q].children = queues[q].children]_vars

\* C35: removeAllocation(appID, uuid) removes from the application the one
\* allocation with that UUID or, without a UUID, all its allocations.  Every
\* allocation it returns is afterwards gone from the allocations map of the
\* partition and from its node, and the allocatedResource of the queue of the
\* application and of every ancestor has decreased by exactly the sum of the
\* returned allocations; for an unknown application or an unknown UUID it
\* returns nothing and changes nothing.
C35_RemoveAllocationReleases ==
    [][last'.op = "removeAllocation" =>
          LET a == last'.id
              ret == last'.ret
              known == a \in DOMAIN applications
              held == IF known THEN applications[a].allocations ELSE EmptyMap
              total == SumRes([u \in ret |-> held[u].AllocatedResource])
          IN  /\ ret \subseteq DOMAIN held
              /\ last'.flag => ret = DOMAIN held
              /\ ~last'.flag => Cardinality(ret) <= 1
              /\ ret = {} => UNCHANGED <<queues, nodes, applications, allocations>>
              /\ known =>
                     /\ DOMAIN applications'[a].allocations = DOMAIN held \ ret
                     /\ \A u \in ret :
                            /\ held[u].UUID \notin DOMAIN allocations'
                            /\ \A n \in DOMAIN nodes' :
                                   held[u].UUID \notin DOMAIN nodes'[n].allocations
                     /\ \A q \in DOMAIN queues :
                            queues'[q].allocatedResource =
                                IF q \in Chain(queues, applications[a].queue)
                                THEN Sub(queues[q].allocatedResource, total)
                                ELSE queues[q].allocatedResource]_vars

\* C36: addChildQueue on a queue that is a leaf or is Draining returns an
\* error and leaves the children of the queue as they are, so that a leaf
\* queue never has children; on a queue that is neither it registers the
\* child under its lower-cased name; removeChildQueue with a name that is not
\* (in lower case) among the children changes nothing.
C36_ChildrenOnlyBelowParents ==
    [][/\ last'.op = "NewUnmanagedQueue" =>
             LET parent == last'.args[1]
                 child == ToLower(last'.id)
                 closed == queues[parent].isLeaf \/ queues[parent].state = Draining
             IN  /\ last'.err <=> closed
                 /\ closed => queues' = queues
                 /\ ~closed =>
                        /\ queues'[parent].children =
                               queues[parent].children \cup {child}
                        /\ queues'[child].Parent = parent
                        /\ \A q \in DOMAIN queues \ {parent, child} :
                               queues'[q] = queues[q]
       /\ last'.op = "removeChildQueue" =>
             LET q == last'.args[1]
                 name == ToLower(last'.id)
             IN  /\ name \notin queues[q].children => queues' = queues
                 /\ queues'[q].children = queues[q].children \ {name}
       /\ \A q \in DOMAIN queues' :
             queues'[q].isLeaf => queues'[q].children = {}]_vars

\* a child was registered below root.parent under its lower-cased name, and
\* the leaf queue has just refused a child
C36_LeafRefusedChild ==
    /\ last.op = "NewUnmanagedQueue"
    /\ last.err
    /\ last.id = "root.leaf.dyn"
    /\ queues[QLeaf].children = {}
    /\ queues[QLeaf].state = Active
    /\ "root.parent.dyn" \in queues[QParent].children
    /\ MixedCaseName \notin DOMAIN queues

\* C37: RemoveQueue on a queue below the root returns true and takes the queue
\* out of the children of its parent if and only if the queue has no
\* children, its allocatedResource is zero and it is not both managed and
\* Active; otherwise it returns false and the tree is as it was.  A Draining
\* managed queue is removed exactly once it is empty, and a queue with
\* allocated resources never.
C37_RemoveQueueWhenEmpty ==
    [][last'.op = "RemoveQueue" =>
          LET q == last'.id
              parent == queues[q].Parent
              removable == /\ queues[q].children = {}
                           /\ IsZero(queues[q].allocatedResource)
                           /\ ~(queues[q].isManaged /\ queues[q].state = Active)
          IN  /\ last'.flag <=> removable
              /\ IF removable
                 THEN /\ queues' = [queues EXCEPT ![parent].children = @ \ {q}]
                      /\ q \in queues[parent].children
                      /\ getQueue(queues', q) = NoQueue
                 ELSE queues' = queues]_vars

\* the managed leaf below root.parent, marked for removal and empty, has just
\* been removed, while the other leaf holds resources and is still in the tree
C37_DrainedLeafRemoved ==
    /\ last.op = "RemoveQueue"
    /\ last.flag
    /\ last.id = QSubLeaf
    /\ queues[QSubLeaf].isManaged
    /\ queues[QSubLeaf].state = Draining
    /\ QSubLeaf \notin queues[QParent].children
    /\ queues[QLeaf].state = Draining
    /\ ~IsZero(queues[QLeaf].allocatedResource)
    /\ QLeaf \in queues[RootQueue].children

\* the moves of the state of a queue or a partition: New to Active, Active to
\* Draining, from any state to Stopped, or none
AllowedMove(from, to) ==
    \/ to = from
    \/ from = New /\ to = Active
    \/ from = Active /\ to = Draining
    \/ to = Stopped

\* C38: the events of the lifecycle are idempotent for queues and partitions.
\* An event that asks for the state the object is in already (Remove for a
\* Draining partition, MarkQueueForRemoval for a Draining queue) returns no
\* error and changes nothing; whenever the state stays, the recorded state
\* time stays; and the state only moves from New to Active, from Active to
\* Draining, from Draining to Stopped or from any state to Stopped: what is
\* Draining never becomes Active again.
C38_EventsIdempotent ==
    [][/\ AllowedMove(pstate, pstate')
       /\ last'.op = "handlePartitionEvent" =>
             LET event == last'.id
                 again == \/ event = Start /\ pstate = Active
                          \/ event = Remove /\ pstate = Draining
                          \/ event = Stop /\ pstate = Stopped
             IN  /\ pstate' = pstate => ~last'.flag
                 /\ again => pstate' = pstate /\ ~last'.err
       /\ \A q \in DOMAIN queues :
             /\ q \in DOMAIN queues'
             /\ AllowedMove(queues[q].state, queues'[q].state)
             /\ queues'[q].state = queues[q].state
                    => queues'[q].stateTime = queues[q].stateTime
       /\ (last'.op = "MarkQueueForRemoval" /\ queues[last'.id].state = Draining)
             => queues'[last'.id] = queues[last'.id]]_vars

\* Remove has just been handled by a partition that was Draining already,
\* beside a managed queue that MarkQueueForRemoval put in Draining once
C38_RemoveHandledTwice ==
    /\ last.op = "handlePartitionEvent"
    /\ last.id = Remove
    /\ ~last.flag /\ ~last.err
    /\ pstate = Draining
    /\ queues[QParent].state = Draining
    /\ queues[QParent].stateTime = 1
    /\ queues[QLeaf].state = Active
    /\ queues[QLeaf].stateTime = 0

\* the queues MarkQueueForRemoval of q reaches: q when it is managed, and the
\* managed queues below it that hang on it by managed queues only
ReachedByMark(q) ==
    {x \in DOMAIN queues :
        /\ q \in Chain(queues, x)
        /\ \A y \in Chain(queues, x) :
               q \in Chain(queues, y) =>
                   /\ queues[y].isManaged
                   /\ y # q => y \in queues[queues[y].Parent].children}

\* C39: MarkQueueForRemoval on a managed queue puts that queue and, level by
\* level, every managed child in Draining and changes nothing else: no
\* allocatedResource, no children, no queue that is unmanaged or hangs below
\* an unmanaged queue; on an unmanaged queue it changes nothing; a second call
\* changes nothing.
C39_MarkReachesManagedOnly ==
    [][last'.op = "MarkQueueForRemoval" =>
          LET q == last'.id
          IN  /\ DOMAIN queues' = DOMAIN queues
              /\ \A x \in DOMAIN queues :
                     IF x \in ReachedByMark(q)
                     THEN /\ queues'[x].state = Draining
                          /\ queues'[x] =
                                 [queues[x] EXCEPT
                                     !.state = Draining,
                                     !.stateTime =
                                         IF queues[x].state = Draining
                                         THEN @ ELSE @ + 1]
                     ELSE queues'[x] = queues[x]
              /\ ~queues[q].isManaged => queues' = queues
              /\ MarkQueueForRemoval(queues', q) = queues']_vars

\* root.parent has just been marked: it and its managed leaf are Draining,
\* the unmanaged queue below it and the other leaf of the root are not
C39_MarkedPastUnmanaged ==
    /\ last.op = "MarkQueueForRemoval"
    /\ last.id = QParent
    /\ queues[QParent].state = Draining
    /\ queues[QSubLeaf].state = Draining
    /\ "root.parent.dyn" \in queues[QParent].children
    /\ ~queues["root.parent.dyn"].isManaged
    /\ queues["root.parent.dyn"].state = Active
    /\ queues[QLeaf].state = Active
    /\ queues[RootQueue].state = Active

RECURSIVE ConfiguredBelow(_, _)
\* the queue configurations of a list of the config, with the ones below them,
\* each with the path of the queue it is configured below
ConfiguredBelow(list, parent) ==
    UNION {{[below |-> parent, conf |-> list[i]]}
               \cup ConfiguredBelow(list[i].Queues, list[i].Name) :
           i \in 1..Len(list)}

\* the queue configurations of a partition configuration
Configured(list) == ConfiguredBelow(list, NoQueue)

\* the queue of the configuration is in the tree at its path with the ACLs,
\* the properties and the maximum of the configuration
ConfiguredInTree(qs, below, c) ==
    /\ getQueue(qs, c.Name) # NoQueue
    /\ qs[c.Name].Parent = below
    /\ below # NoQueue => c.Name \in qs[below].children
    /\ qs[c.Name].isManaged
    /\ qs[c.Name].submitACL = c.SubmitACL
    /\ qs[c.Name].adminACL = c.AdminACL
    /\ c.Max # Nil => qs[c.Name].maxResource = c.Max
    /\ \A k \in DOMAIN c.Properties :
           /\ k \in DOMAIN qs[c.Name].properties
           /\ qs[c.Name].properties[k] = c.Properties[k]

\* the managed queues that were in the tree and are not in the configuration
\* are Draining
AbsentDraining(before, after, names) ==
    \A q \in DOMAIN before :
        (getQueue(before, q) # NoQueue /\ before[q].isManaged /\ q \notin names)
            => getQueue(after, q) # NoQueue /\ after[q].state = Draining

\* no queue of the tree is taken out of it
NothingDeleted(before, after) ==
    \A q \in DOMAIN before :
        getQueue(before, q) # NoQueue =>
            /\ getQueue(after, q) # NoQueue
            /\ before[q].children \subseteq after[q].children

\* C40: after a successful reload (updatePartitionDetails without an error)
\* every queue named in the new config is in the tree at its configured path
\* with the new settings, every managed queue that was in the tree and is not
\* in the new config is Draining, no queue is deleted by the reload, and every
\* queue named in the new config is Active, the state that accepts
\* applications
C40_ReloadedTreeFollowsConfig ==
    [][(last'.op = "updatePartitionDetails" /\ last' # last /\ ~last'.err) =>
          LET conf == last'.args[1]
              named == Configured(conf.Queues)
              names == {c.conf.Name : c \in named}
          IN  /\ \A c \in named : ConfiguredInTree(queues', c.below, c.conf)
              /\ AbsentDraining(queues, queues', names)
              /\ NothingDeleted(queues, queues')
              /\ \A c \in named : queues'[c.conf.Name].state = Active]_vars

\* C40, without the state of the configured queues: the configured queues are
\* in the tree with the new settings, the absent managed queues are Draining
\* and nothing is deleted
C40_ReloadedTreeButState ==
    [][(last'.op = "updatePartitionDetails" /\ last' # last /\ ~last'.err) =>
          LET conf == last'.args[1]
              named == Configured(conf.Queues)
              names == {c.conf.Name : c \in named}
          IN  /\ \A c \in named : ConfiguredInTree(queues', c.below, c.conf)
              /\ AbsentDraining(queues, queues', names)
              /\ NothingDeleted(queues, queues')]_vars

\* a successful reload has just named root.leaf, which an earlier reload had
\* left out, and root.leaf is still Draining
C40_ConfiguredStillDraining ==
    /\ last.op = "updatePartitionDetails"
    /\ ~last.err
    /\ \E c \in Configured(last.args[1].Queues) : c.conf.Name = QLeaf
    /\ queues[QLeaf].state = Draining
    /\ queues[QLeaf].isManaged

====
